---- MODULE Spec2Model ----
(***************************************************************************)
(* Streaming playback and word-synchronisation engine of the TTS web app:  *)
(* the useSpeechGeneration hook (src/src/app/hooks/useSpeechGeneration.js) *)
(* together with the audio element, the network stream and the user, which *)
(* drive it.                                                               *)
(*                                                                         *)
(* Every handler of the hook is an operator from a state record to a state *)
(* record (the code's statements in order); an action applies one handler, *)
(* or one continuation of an async function up to its next await, to the   *)
(* current state.  React state is taken as committed, and the effects as   *)
(* run, when the task that changed it ends.                                *)
(***************************************************************************)
EXTENDS Integers, Sequences, FiniteSets, TLC

VARIABLES
    isGenerating,      \* useState(false)
    isPlaying,         \* useState(false)
    isStreaming,       \* useState(false)
    status,            \* useState('')
    error,             \* useState('')
    streamProgress,    \* useState(0)
    timestamps,        \* useState([])
    currentWordIndex,  \* useState(-1)
    audioEl,           \* audioElementRef.current: 0 = null, else the id of the element
    el,                \* the state of the element audioElementRef.current refers to
    blobUrl,           \* audioBlobUrlRef.current: 0 = null, else an object URL
    ctrl,              \* controllerRef.current: 0 = null, else the session whose controller it is
    chunks,            \* chunksRef.current
    totalChunks,       \* totalChunksRef.current
    timer,             \* timestampIntervalRef.current is a running interval
    intervals,         \* the intervals set and not cleared, oldest first: what each callback closes over
    playbackStarted,   \* playbackStartedRef.current
    sess,              \* the generateSpeech invocations: locals and position
    fl,                \* the updateAudioFromChunks invocations: locals and position
    waitq,             \* flushes waiting for canplaythrough, in registration order
    live,              \* object URLs created and not revoked
    done,              \* history: the flushes that returned in the last task
    appended,          \* history: chunks pushed since the buffer was last reset
    env,               \* what the environment may still do (calls left)
    lastOp,            \* history: the handler that ran last
    al                 \* the alignment utilities: their arguments and results

vars == <<isGenerating, isPlaying, isStreaming, status, error, streamProgress,
          timestamps, currentWordIndex, audioEl, el, blobUrl, ctrl, chunks,
          totalChunks, timer, intervals, playbackStarted, sess, fl, waitq, live, done,
          appended, env, lastOp, al>>

\* ------------------------------------------------------------------ bounds
\* records in a response stream when one generation runs
MaxRecs == 2
\* records in a response stream when two generations run
TwoRecs == 1
\* calls of stopPlaying and of handlePlayPause, and transport failures, when
\* one generation runs
MaxStops == 1
MaxClicks == 1
MaxFails == 1
\* calls of generateSpeech with a blank text
MaxBlanks == 1
\* records in a response stream of the line-splitting specification
MaxLines == 2
\* calls of handleSeek, handleRewind and handleForward of the seeking
\* specification
MaxSeeks == 1
\* words in a TimestampSequence of the word-tracking specification
MaxWords == 3
\* playback positions 0..MaxTime of the word-tracking specification
MaxTime == 3

\* the generateSpeech invocations: an earlier and a later one
Sess == {1, 2}
\* the updateAudioFromChunks invocations: the one each generateSpeech
\* invocation awaits, and the one the 'ended' listener starts and never awaits
EndedFlush == Cardinality(Sess) + 1
FlushIds == Sess \cup {EndedFlush}

Min(a, b) == IF a < b THEN a ELSE b
Max(a, b) == IF a > b THEN a ELSE b

\* the seconds handleRewind and handleForward skip
SkipSeconds == 10

\* ------------------------------------------------------- the wire protocol
\* A response body is a sequence of bytes.  "{" and "}" delimit a JSON record,
\* "n" is the newline, " " a blank; "A" and "B" are base64 audio payloads that
\* decode, "X" one that atob rejects; "p", "q", "r" are timestamp entries;
\* "m1" "m2" are the two bytes of one non-ASCII character "M" (a timestamp
\* entry whose word is not ASCII); "z" is a timestamp entry whose word is
\* not a string.
AudioChars == {"A", "B", "X"}
TsChars == {"p", "q", "r", "M"}
InvalidTsChars == {"z"}

\* the word of an entry whose "word" member is null
NotAString == "(null)"

TsOf(c) ==
    CASE c = "p" -> [word |-> "p", start_time |-> 0, end_time |-> 1]
      [] c = "z" -> [word |-> NotAString, start_time |-> 0, end_time |-> 1]
      [] c = "q" -> [word |-> "q", start_time |-> 1, end_time |-> 2]
      [] c = "r" -> [word |-> "r", start_time |-> 0, end_time |-> 2]
      [] OTHER   -> [word |-> "M", start_time |-> 2, end_time |-> 3]

\* TextDecoder.decode(value, {stream: true}) on the bytes of a complete prefix
RECURSIVE Utf8(_)
Utf8(bs) ==
    IF bs = <<>> THEN <<>>
    ELSE IF Head(bs) = "m1"
         THEN IF Len(bs) >= 2 /\ bs[2] = "m2"
              THEN <<"M">> \o Utf8(SubSeq(bs, 3, Len(bs)))
              ELSE <<"?">> \o Utf8(Tail(bs))
    ELSE IF Head(bs) = "m2" THEN <<"?">> \o Utf8(Tail(bs))
    ELSE <<Head(bs)>> \o Utf8(Tail(bs))

\* decoder.decode(value, { stream: true }): an unfinished character at the end
\* of a read is kept by the decoder for the next read
decode(pending, value) ==
    LET all  == pending \o value
        hold == IF all # <<>> /\ all[Len(all)] = "m1" THEN <<"m1">> ELSE <<>>
    IN  [text |-> Utf8(SubSeq(all, 1, Len(all) - Len(hold))), pending |-> hold]

\* String.prototype.split('\n'): always at least one piece
RECURSIVE split(_)
split(text) ==
    IF \A i \in 1..Len(text) : text[i] # "n" THEN <<text>>
    ELSE LET i == CHOOSE k \in 1..Len(text) :
                     text[k] = "n" /\ \A j \in 1..(k - 1) : text[j] # "n"
         IN  <<SubSeq(text, 1, i - 1)>> \o split(SubSeq(text, i + 1, Len(text)))

\* String.prototype.trim()
RECURSIVE trim(_)
trim(line) ==
    IF line = <<>> THEN line
    ELSE IF Head(line) = " " THEN trim(Tail(line))
    ELSE IF line[Len(line)] = " " THEN trim(SubSeq(line, 1, Len(line) - 1))
    ELSE line

\* what JSON.parse throws on
SyntaxError == [ok |-> FALSE, audio |-> "", ts |-> <<>>]

\* the timestamps array of a record (no entry: the record has no such member)
parseTimestamps(audio, tsp) ==
    IF \A i \in 1..Len(tsp) : tsp[i] \in TsChars \cup InvalidTsChars
    THEN [ok |-> TRUE, audio |-> audio, ts |-> [i \in 1..Len(tsp) |-> TsOf(tsp[i])]]
    ELSE SyntaxError

\* the members of a record: an optional audio payload, then timestamp entries
parseMembers(body) ==
    IF body # <<>> /\ body[1] \in AudioChars
    THEN parseTimestamps(body[1], Tail(body))
    ELSE parseTimestamps("", body)

\* a JSON text is one object between braces
parseObject(t) ==
    IF Len(t) >= 2 /\ t[1] = "{" /\ t[Len(t)] = "}"
    THEN parseMembers(SubSeq(t, 2, Len(t) - 1))
    ELSE SyntaxError

\* JSON.parse(line) and the fields read from it (chunkJson.audio, or "" when
\* the record has none, and chunkJson.timestamps): ok = FALSE when it throws
JSONparse(line) == parseObject(trim(line))

\* base64ToArrayBuffer: atob throws on "X"
ValidBase64(a) == a # "X"
base64ToArrayBuffer(a) == IF a = "A" THEN <<"a">> ELSE <<"b">>

\* --------------------------------------------------------------- the state
NewAudio == [src |-> 0, content |-> <<>>, paused |-> TRUE, time |-> 0,
             ready |-> FALSE, events |-> <<>>, userPromise |-> FALSE,
             seekPromise |-> FALSE, orphanError |-> FALSE,
             failed |-> FALSE]

IdleSess == [pc |-> "idle", lastProcessed |-> 0, received |-> 0,
             incomplete |-> <<>>, allTs |-> <<>>, lines |-> <<>>,
             net |-> <<>>, dec |-> <<>>, aborted |-> FALSE,
             delivered |-> <<>>, parsed |-> <<>>, pushed |-> <<>>,
             held |-> FALSE]

IdleFlush == [pc |-> "idle", caller |-> "none", first |-> FALSE,
              forcePlay |-> FALSE, wasPlaying |-> FALSE, wasEnded |-> FALSE,
              pos |-> 0, elem |-> 0, blob |-> <<>>, buffer |-> <<>>,
              canPlay |-> FALSE, played |-> FALSE, rejected |-> FALSE,
              posAfter |-> 0]

Cur == [isGenerating |-> isGenerating, isPlaying |-> isPlaying,
        isStreaming |-> isStreaming, status |-> status, error |-> error,
        streamProgress |-> streamProgress, timestamps |-> timestamps,
        currentWordIndex |-> currentWordIndex, audioEl |-> audioEl, el |-> el,
        blobUrl |-> blobUrl, ctrl |-> ctrl, chunks |-> chunks,
        totalChunks |-> totalChunks, timer |-> timer, intervals |-> intervals,
        playbackStarted |-> playbackStarted, sess |-> sess, fl |-> fl,
        waitq |-> waitq, live |-> live, done |-> <<>>, appended |-> appended,
        env |-> env]

\* the media resource an element plays: one time unit per chunk of its blob
Duration(e) == Len(e.content)
\* HTMLMediaElement.ended: playback has reached the end of the resource
Ended(e) == e.ready /\ e.time = Duration(e)

\* pending play() promises of the current element are rejected (by pause() or
\* by a new load): the flush awaiting one resumes in its catch
RejectPlays(st) ==
    [st EXCEPT !.fl = [f \in FlushIds |->
                          IF st.fl[f].pc = "play" THEN [st.fl[f] EXCEPT !.rejected = TRUE]
                          ELSE st.fl[f]],
               !.error = IF st.el.userPromise THEN "blocked" ELSE st.error,
               !.el.userPromise = FALSE, !.el.seekPromise = FALSE]

\* HTMLMediaElement.pause()
elPause(st) ==
    IF st.el.paused THEN st
    ELSE LET a == RejectPlays(st)
         IN  [a EXCEPT !.el.paused = TRUE, !.el.events = Append(@, "pause")]

\* assigning HTMLMediaElement.src runs the load algorithm: pending events are
\* dropped, pending play promises rejected, the element is paused at 0; an
\* empty src fails the resource selection, which queues the failure steps
\* (the error event)
elLoad(st, url, content) ==
    LET a == RejectPlays(st)
    IN  [a EXCEPT !.el = [src |-> url, content |-> content, paused |-> TRUE,
                          time |-> 0, ready |-> FALSE,
                          events |-> IF url = 0 THEN <<"error">> ELSE <<>>,
                          userPromise |-> FALSE, seekPromise |-> FALSE,
                          orphanError |-> st.el.orphanError, failed |-> FALSE]]

\* HTMLMediaElement.play() when the browser allows it
elPlay(st) ==
    LET t == IF Ended(st.el) THEN 0 ELSE st.el.time
    IN  IF st.el.paused
        THEN [st EXCEPT !.el.time = t, !.el.paused = FALSE,
                        !.el.events = Append(@, "play")]
        ELSE [st EXCEPT !.el.time = t]

\* `if (timestampIntervalRef.current) { clearInterval(...); ... = null }`: the
\* interval the ref holds is the one set last
clearInterval(st) ==
    IF st.timer
    THEN [st EXCEPT !.timer = FALSE,
                    !.intervals = SubSeq(@, 1, Len(@) - 1)]
    ELSE st

\* a teardown that drops only the newest chunk of the buffer
cleanupPopsChunk(st) ==
    LET a == IF st.audioEl # 0 THEN elLoad(elPause(st), 0, <<>>) ELSE st
        b == IF a.blobUrl # 0
             THEN [a EXCEPT !.live = @ \ {a.blobUrl}, !.blobUrl = 0]
             ELSE a
    IN  [clearInterval(b) EXCEPT !.playbackStarted = FALSE,
                  !.chunks = IF @ = <<>> THEN <<>> ELSE SubSeq(@, 1, Len(@) - 1),
                  !.appended = <<>>, !.totalChunks = 0,
                  !.isStreaming = FALSE, !.streamProgress = 0,
                  !.timestamps = <<>>, !.currentWordIndex = -1]

\* cleanup()
cleanup(st) ==
    LET a == IF st.audioEl # 0 THEN elLoad(elPause(st), 0, <<>>) ELSE st
        b == IF a.blobUrl # 0
             THEN [a EXCEPT !.live = @ \ {a.blobUrl}, !.blobUrl = 0]
             ELSE a
    IN  [clearInterval(b) EXCEPT !.playbackStarted = FALSE,
                  !.chunks = <<>>, !.appended = <<>>, !.totalChunks = 0,
                  !.isStreaming = FALSE, !.streamProgress = 0,
                  !.timestamps = <<>>, !.currentWordIndex = -1]

\* a stop that tears down and leaves the request running
stopPlayingNoAbort(st) ==
    [cleanup(st) EXCEPT !.isPlaying = FALSE, !.isGenerating = FALSE]

\* stopPlaying()
stopPlaying(st) ==
    LET a == IF st.ctrl # 0
             THEN [st EXCEPT !.sess[st.ctrl].aborted = TRUE, !.ctrl = 0]
             ELSE st
        b == cleanup(a)
    IN  [b EXCEPT !.isPlaying = FALSE, !.isGenerating = FALSE]

\* a generateSpeech that validates the text after the reset and the teardown
generateSpeechResetsFirst(st, s, blank) ==
    LET a == [st EXCEPT !.error = "", !.status = "generating",
                        !.isGenerating = TRUE, !.isStreaming = TRUE,
                        !.streamProgress = 0, !.timestamps = <<>>,
                        !.currentWordIndex = -1]
        b == cleanup(a)
    IN  IF blank THEN [b EXCEPT !.error = "validation"]
        ELSE [b EXCEPT !.audioEl = s,
                       !.el = [NewAudio EXCEPT !.orphanError =
                                   (st.el.orphanError \/ st.audioEl # 0)],
                       !.ctrl = s,
                       !.chunks = <<>>, !.appended = <<>>, !.totalChunks = 0,
                       !.sess[s] = [IdleSess EXCEPT !.pc = "fetch"]]

\* generateSpeech(text, ...) up to its first await (the fetch); s is the
\* invocation, blank says that text.trim() is empty
generateSpeech(st, s, blank) ==
    IF blank THEN [st EXCEPT !.error = "validation"]
    ELSE LET a == [st EXCEPT !.error = "", !.status = "generating",
                             !.isGenerating = TRUE, !.isStreaming = TRUE,
                             !.streamProgress = 0, !.timestamps = <<>>,
                             !.currentWordIndex = -1]
             b == cleanup(a)
         IN  [b EXCEPT !.audioEl = s,
                       !.el = [NewAudio EXCEPT !.orphanError =
                                   (st.el.orphanError \/ st.audioEl # 0)],
                       !.ctrl = s,
                       !.chunks = <<>>, !.appended = <<>>, !.totalChunks = 0,
                       !.sess[s] = [IdleSess EXCEPT !.pc = "fetch"]]

\* URL.createObjectURL: an object URL no live one equals
NewUrl(st) ==
    CHOOSE u \in 1..(Cardinality(st.live) + 2) :
        /\ u \notin st.live \cup {st.blobUrl}
        /\ \A v \in 1..(u - 1) : v \in st.live \cup {st.blobUrl}

\* new Blob(chunksRef.current, ...): the bytes of the parts, in order
RECURSIVE Blob(_)
Blob(parts) == IF parts = <<>> THEN <<>> ELSE Head(parts) \o Blob(Tail(parts))

\* a flush that never revokes
revokeNone(st) == st

\* URL.revokeObjectURL(audioBlobUrlRef.current) when one is held
revokeOld(st) ==
    IF st.blobUrl # 0 THEN [st EXCEPT !.live = @ \ {st.blobUrl}] ELSE st

\* updateAudioFromChunks(forcePlay) up to its first await: captures the play
\* state, builds the blob, swaps the object URL, assigns the source and starts
\* the wait for canplaythrough
flushStart(st, f, forcePlay, caller) ==
    LET url == NewUrl(st)
        a   == revokeOld(st)
        b   == [a EXCEPT !.live = @ \cup {url}, !.blobUrl = url]
        c   == elLoad(b, url, Blob(st.chunks))
    IN  [c EXCEPT
            !.fl[f] = [pc |-> "wait", caller |-> caller,
                       first |-> (st.totalChunks = 1 \/ ~st.playbackStarted),
                       forcePlay |-> forcePlay,
                       wasPlaying |-> ~st.el.paused,
                       wasEnded |-> Ended(st.el),
                       pos |-> st.el.time, elem |-> st.audioEl,
                       blob |-> Blob(st.chunks), buffer |-> st.appended,
                       canPlay |-> FALSE, played |-> FALSE, rejected |-> FALSE,
                       posAfter |-> 0],
            !.waitq = Append(@, f)]

\* the completion of generateSpeech
complete(st, s) ==
    [st EXCEPT !.isGenerating = FALSE, !.isStreaming = FALSE,
               !.streamProgress = 100, !.status = "complete",
               !.sess[s].pc = "done"]

\* updateAudioFromChunks(forcePlay): returns at once without an audio element
updateAudioFromChunks(st, f, forcePlay, caller) ==
    IF st.audioEl = 0
    THEN [st EXCEPT !.fl[f] = [IdleFlush EXCEPT !.pc = "return", !.caller = caller,
                                                !.forcePlay = forcePlay]]
    ELSE flushStart(st, f, forcePlay, caller)

\* after a chunk was pushed: the first chunk starts playback; a later one
\* flushes when the buffer is longer than lastProcessedChunkCount
flushIfNew(d, s) ==
    IF d.sess[s].received = 1
    THEN updateAudioFromChunks([d EXCEPT !.sess[s].pc = "flush"], s, TRUE, "first")
    ELSE IF Len(d.chunks) > d.sess[s].lastProcessed
    THEN updateAudioFromChunks([d EXCEPT !.sess[s].pc = "flush"], s, Ended(d.el), "next")
    ELSE d

\* a push that publishes the timestamps of the new record alone
pushChunkPublishesLast(c, s, bytes, ts) ==
    flushIfNew([c EXCEPT !.chunks = Append(@, bytes),
                         !.appended = Append(@, [by |-> s, bytes |-> bytes]),
                         !.sess[s].pushed = Append(@, bytes),
                         !.totalChunks = c.sess[s].received,
                         !.sess[s].allTs = @ \o ts,
                         !.timestamps = IF ts = <<>> THEN @ ELSE ts,
                         !.status = "processing",
                         !.streamProgress = Min(c.sess[s].received * 5, 99)], s)

\* the decoded audio joins the buffer; the timestamps of the record, when it
\* has any, join allTimestamps, which becomes the TimestampSequence
pushChunk(c, s, bytes, ts) ==
    flushIfNew([c EXCEPT !.chunks = Append(@, bytes),
                         !.appended = Append(@, [by |-> s, bytes |-> bytes]),
                         !.sess[s].pushed = Append(@, bytes),
                         !.totalChunks = c.sess[s].received,
                         !.sess[s].allTs = @ \o ts,
                         !.timestamps = IF ts = <<>> THEN @
                                        ELSE c.sess[s].allTs \o ts,
                         !.status = "processing",
                         !.streamProgress = Min(c.sess[s].received * 5, 99)], s)

\* `if (chunkJson.audio)`: receivedChunks++, then the decoding, which throws
\* into the catch of the line when atob rejects the payload
processChunk(b, s, j) ==
    IF j.audio = "" THEN b
    ELSE IF ~ValidBase64(j.audio) THEN [b EXCEPT !.sess[s].received = @ + 1]
    ELSE pushChunk([b EXCEPT !.sess[s].received = @ + 1], s,
                   base64ToArrayBuffer(j.audio), j.ts)

\* the try around JSON.parse: a line that does not parse is dropped
processRecord(a, s, j) ==
    IF ~j.ok THEN a
    ELSE processChunk([a EXCEPT !.sess[s].parsed =
                                    Append(@, [audio |-> j.audio, ts |-> j.ts])], s, j)

\* a line loop that a line failing JSON.parse breaks out of
ProcessLineBreaks(st, s) ==
    IF st.sess[s].lines = <<>> THEN [st EXCEPT !.sess[s].pc = "read"]
    ELSE IF trim(Head(st.sess[s].lines)) = <<>>
    THEN [st EXCEPT !.sess[s].lines = Tail(@)]
    ELSE IF ~JSONparse(Head(st.sess[s].lines)).ok
    THEN [st EXCEPT !.sess[s].lines = <<>>]
    ELSE processRecord([st EXCEPT !.sess[s].lines = Tail(@)], s,
                       JSONparse(Head(st.sess[s].lines)))

\* one turn of the loop over the lines of a read in generateSpeech: the next
\* line, up to an await (a flush), or the next reader.read() after the last
ProcessLine(st, s) ==
    IF st.sess[s].lines = <<>> THEN [st EXCEPT !.sess[s].pc = "read"]
    ELSE IF trim(Head(st.sess[s].lines)) = <<>>
    THEN [st EXCEPT !.sess[s].lines = Tail(@)]
    ELSE processRecord([st EXCEPT !.sess[s].lines = Tail(@)], s,
                       JSONparse(Head(st.sess[s].lines)))

\* generateSpeech after the fetch resolved with an ok response
fetchOk(st, s, body) ==
    [st EXCEPT !.status = "receiving", !.sess[s].pc = "read", !.sess[s].net = body]

\* a loop that parses every piece of a read and holds nothing over
readValueNoHoldOver(st, s, k) ==
    LET value == SubSeq(st.sess[s].net, 1, k)
        d     == decode(st.sess[s].dec, value)
    IN  [st EXCEPT !.sess[s].net = SubSeq(@, k + 1, Len(@)),
                   !.sess[s].delivered = @ \o value,
                   !.sess[s].dec = d.pending,
                   !.sess[s].lines = split(d.text),
                   !.sess[s].incomplete = <<>>,
                   !.sess[s].pc = "lines"]

\* generateSpeech after reader.read() resolved with { done: false, value }:
\* decodes the bytes, splits the held-over text and the new text on newlines,
\* holds the last part over and enters the loop over the other parts
readValue(st, s, k) ==
    LET value == SubSeq(st.sess[s].net, 1, k)
        d     == decode(st.sess[s].dec, value)
        parts == split(st.sess[s].incomplete \o d.text)
    IN  [st EXCEPT !.sess[s].net = SubSeq(@, k + 1, Len(@)),
                   !.sess[s].delivered = @ \o value,
                   !.sess[s].dec = d.pending,
                   !.sess[s].lines = SubSeq(parts, 1, Len(parts) - 1),
                   !.sess[s].incomplete = parts[Len(parts)],
                   !.sess[s].held = (@ \/ parts[Len(parts)] # <<>>),
                   !.sess[s].pc = "lines"]

\* a catch that reports the error and resets the flags without the teardown
catchNoCleanup(st, s, message) ==
    [st EXCEPT !.error = message, !.isGenerating = FALSE,
               !.isPlaying = FALSE, !.status = "",
               !.isStreaming = FALSE, !.sess[s].pc = "failed"]

\* the catch block of generateSpeech
catch(st, s, message) ==
    LET a == [st EXCEPT !.error = message, !.isGenerating = FALSE,
                        !.isPlaying = FALSE, !.status = "",
                        !.isStreaming = FALSE]
    IN  [cleanup(a) EXCEPT !.sess[s].pc = "failed"]

\* generateSpeech after reader.read() resolved with { done: true }
readDone(st, s) ==
    IF /\ st.audioEl # 0
       /\ (st.el.paused \/ Ended(st.el))
       /\ Len(st.chunks) > st.sess[s].lastProcessed
    THEN updateAudioFromChunks([st EXCEPT !.sess[s].pc = "finalFlush"], s, TRUE, "final")
    ELSE complete(st, s)

\* updateAudioFromChunks returns: its caller goes on
flushReturn(st, f) ==
    LET a == [st EXCEPT !.done = Append(@, [st.fl[f] EXCEPT !.pc = "idle"]),
                        !.fl[f] = IdleFlush]
        c == st.fl[f].caller
    IN  IF c = "first"
        THEN [a EXCEPT !.sess[f].lastProcessed = 1, !.sess[f].pc = "lines"]
        ELSE IF c = "next"
        THEN [a EXCEPT !.sess[f].lastProcessed = Len(a.chunks), !.sess[f].pc = "lines"]
        ELSE IF c = "final" THEN complete(a, f)
        ELSE a

\* updateAudioFromChunks after its awaited play() settled
flushAfterPlay(st, f, ok) ==
    LET a == IF ~st.fl[f].first THEN st
             ELSE IF ok THEN [st EXCEPT !.playbackStarted = TRUE]
             ELSE [st EXCEPT !.status = "clickPlay"]
    IN  [a EXCEPT !.fl[f].rejected = ~ok, !.fl[f].pc = "return"]

\* await audioElementRef.current.play() inside updateAudioFromChunks; the
\* browser rejects the call while its autoplay policy blocks the page or the
\* element's source has failed
flushPlay(st, f) ==
    LET a == [st EXCEPT !.fl[f].played = TRUE]
    IN  IF st.env.autoplay /\ ~st.el.failed THEN [elPlay(a) EXCEPT !.fl[f].pc = "play"]
        ELSE flushAfterPlay(a, f, FALSE)

\* a readiness wait that only canplaythrough ends
flushAfterWaitNoTimeout(st, f, canPlay) ==
    LET r == st.fl[f]
        a == [st EXCEPT !.fl[f].canPlay = canPlay,
                        !.waitq = SelectSeq(@, LAMBDA g : g # f)]
    IN  IF ~canPlay THEN st
        ELSE IF r.first
        THEN IF r.forcePlay
             THEN flushPlay([a EXCEPT !.fl[f].posAfter = a.el.time], f)
             ELSE [a EXCEPT !.fl[f].posAfter = a.el.time, !.fl[f].pc = "return"]
        ELSE LET b == IF r.pos > 0
                      THEN [a EXCEPT !.el.time = Min(r.pos, Duration(a.el))]
                      ELSE a
                 c == [b EXCEPT !.fl[f].posAfter = b.el.time]
             IN  IF r.wasPlaying THEN flushPlay(c, f)
                 ELSE [c EXCEPT !.fl[f].pc = "return"]

\* updateAudioFromChunks after the readiness wait: canPlay is TRUE when
\* canplaythrough arrived and FALSE when the timeout won
flushAfterWait(st, f, canPlay) ==
    LET r == st.fl[f]
        a == [st EXCEPT !.fl[f].canPlay = canPlay,
                        !.waitq = SelectSeq(@, LAMBDA g : g # f)]
    IN  IF r.first
        THEN IF canPlay /\ r.forcePlay
             THEN flushPlay([a EXCEPT !.fl[f].posAfter = a.el.time], f)
             ELSE [a EXCEPT !.fl[f].posAfter = a.el.time, !.fl[f].pc = "return"]
        ELSE LET b == IF r.pos > 0
                      THEN [a EXCEPT !.el.time = Min(r.pos, Duration(a.el))]
                      ELSE a
                 c == [b EXCEPT !.fl[f].posAfter = b.el.time]
             IN  IF r.wasPlaying THEN flushPlay(c, f)
                 ELSE [c EXCEPT !.fl[f].pc = "return"]

\* the code that runs without yielding: a returning flush hands over to its
\* caller, the loop over the lines takes its next turn; with micro, the
\* microtask of a rejected play() promise runs as well
RECURSIVE Run(_, _)
Run(st, micro) ==
    IF \E f \in FlushIds : st.fl[f].pc = "return"
    THEN Run(flushReturn(st, CHOOSE f \in FlushIds : st.fl[f].pc = "return"), micro)
    ELSE IF \E s \in Sess : st.sess[s].pc = "lines"
    THEN Run(ProcessLine(st, CHOOSE s \in Sess : st.sess[s].pc = "lines"), micro)
    ELSE IF micro /\ \E f \in FlushIds : st.fl[f].pc = "play" /\ st.fl[f].rejected
    THEN Run(flushAfterPlay(st, CHOOSE f \in FlushIds :
                                    st.fl[f].pc = "play" /\ st.fl[f].rejected, FALSE), micro)
    ELSE st

\* the canplaythrough listeners of the current element, in registration order,
\* each followed by its microtasks
RECURSIVE Resolve(_, _)
Resolve(st, q) ==
    IF q = <<>> THEN st
    ELSE IF st.fl[Head(q)].pc = "wait" /\ st.fl[Head(q)].elem = st.audioEl
    THEN Resolve(Run(flushAfterWait(st, Head(q), TRUE), TRUE), Tail(q))
    ELSE Resolve(st, Tail(q))

\* the 'play' listener
onPlay(st) == [st EXCEPT !.isPlaying = TRUE]

\* the 'pause' listener
onPause(st) == IF ~Ended(st.el) THEN [st EXCEPT !.isPlaying = FALSE] ELSE st

\* the 'error' listener (e.message is undefined for a media error event)
onError(st) == [st EXCEPT !.error = "audio"]

\* the 'ended' listener of the current element; lastProcessedChunkCount is the
\* local of the generateSpeech invocation that created the element
onEnded(st) ==
    IF Len(st.chunks) > st.sess[st.audioEl].lastProcessed
    THEN updateAudioFromChunks(
             [st EXCEPT !.sess[st.audioEl].lastProcessed = Len(st.chunks)],
             EndedFlush, TRUE, "ended")
    ELSE [st EXCEPT !.isPlaying = FALSE, !.status = "playbackComplete"]

\* a loop that keeps the last index whose interval holds t
LastMatch(ts, t) ==
    IF \E i \in 1..Len(ts) : t >= ts[i].start_time /\ t <= ts[i].end_time
    THEN (CHOOSE i \in 1..Len(ts) :
             /\ t >= ts[i].start_time /\ t <= ts[i].end_time
             /\ \A j \in (i + 1)..Len(ts) :
                    ~(t >= ts[j].start_time /\ t <= ts[j].end_time)) - 1
    ELSE -1

\* the first index whose interval holds t, or -1 (the loop of the interval
\* callback, of handleSeek and of getWordAtTime)
FirstMatch(ts, t) ==
    IF \E i \in 1..Len(ts) : t >= ts[i].start_time /\ t <= ts[i].end_time
    THEN (CHOOSE i \in 1..Len(ts) :
             /\ t >= ts[i].start_time /\ t <= ts[i].end_time
             /\ \A j \in 1..(i - 1) : ~(t >= ts[j].start_time /\ t <= ts[j].end_time)) - 1
    ELSE -1

\* the callback with an index written whenever it differs, found or not
pollTickResets(st, c) ==
    IF st.audioEl = 0 THEN st
    ELSE [st EXCEPT !.currentWordIndex = FirstMatch(c.timestamps, st.el.time)]

\* the callback of the word-tracking interval, c being the timestamps and
\* the currentWordIndex of the render that set the interval
pollTick(st, c) ==
    IF st.audioEl = 0 THEN st
    ELSE LET foundIndex == FirstMatch(c.timestamps, st.el.time)
         IN  IF foundIndex # -1 /\ foundIndex # c.currentWordIndex
             THEN [st EXCEPT !.currentWordIndex = foundIndex]
             ELSE st

\* timestampIntervalRef.current = setInterval(() => {...}, 60)
setInterval(st) ==
    [st EXCEPT !.timer = TRUE,
               !.intervals = Append(@, [timestamps |-> st.timestamps,
                                        currentWordIndex |-> st.currentWordIndex])]

\* an effect that sets its interval without clearing the one before
wordTrackingEffectLeaks(st) ==
    IF st.isPlaying /\ Len(st.timestamps) > 0
    THEN setInterval(st)
    ELSE clearInterval(st)

\* the word-tracking effect, run when isPlaying, timestamps or currentWordIndex
\* changed: the cleanup of its last run clears the interval, then its body
\* sets one when playing with timestamps
wordTrackingEffect(st) ==
    IF st.isPlaying /\ Len(st.timestamps) > 0
    THEN setInterval(clearInterval(st))
    ELSE clearInterval(st)

\* handlePlayPause(); readyState >= 2 once the resource is ready
handlePlayPause(st) ==
    IF st.audioEl = 0 THEN st
    ELSE IF st.isPlaying THEN elPause(st)
    ELSE IF st.el.ready THEN [elPlay(st) EXCEPT !.el.userPromise = TRUE]
    ELSE [st EXCEPT !.status = "notReady"]

\* the loop of handleSeek, handleRewind and handleForward over the
\* timestamps: the index of the first interval that holds the new time is
\* set; without one nothing is set
setWordAt(st, t) ==
    IF FirstMatch(st.timestamps, t) # -1
    THEN [st EXCEPT !.currentWordIndex = FirstMatch(st.timestamps, t)]
    ELSE st

\* handleSeek(e) for a click that maps to seekTime (a fraction of the
\* duration); duration is NaN, and falsy, until the resource is ready
handleSeek(st, seekTime) ==
    IF st.audioEl = 0 \/ ~st.el.ready \/ Duration(st.el) = 0 THEN st
    ELSE IF (setWordAt([st EXCEPT !.el.time = seekTime], seekTime)).el.paused
    THEN [elPlay(setWordAt([st EXCEPT !.el.time = seekTime], seekTime))
              EXCEPT !.el.seekPromise = TRUE]
    ELSE setWordAt([st EXCEPT !.el.time = seekTime], seekTime)

\* the seek time of a click without the clamp of the fraction
seekTimeUnclamped(offset, width, duration) == (offset * duration) \div width

\* the seek time of a click at offset = e.clientX - bounds.left on a bar of
\* the given width: x = max(0, offset), percentage = min(1, max(0, x / width)),
\* seekTime = percentage * duration (the clicks taken have a whole seekTime)
seekTime(offset, width, duration) ==
    (Min(width, Max(0, Max(0, offset))) * duration) \div width

\* handleSeek(e) for a click at the given offset on a bar of the given width
handleSeekClick(st, offset, width) ==
    IF st.audioEl = 0 \/ ~st.el.ready \/ Duration(st.el) = 0 THEN st
    ELSE IF width > 0
    THEN handleSeek(st, seekTime(offset, width, Duration(st.el)))
    ELSE st

\* handleRewind()
handleRewind(st) ==
    IF st.audioEl = 0 THEN st
    ELSE setWordAt([st EXCEPT !.el.time = Max(0, st.el.time - SkipSeconds)],
                   Max(0, st.el.time - SkipSeconds))

\* audioElementRef.current.duration || 0
DurationOr0(e) == IF e.ready THEN Duration(e) ELSE 0

\* handleForward()
handleForward(st) ==
    IF st.audioEl = 0 THEN st
    ELSE setWordAt([st EXCEPT !.el.time = Min(DurationOr0(st.el), st.el.time + SkipSeconds)],
                   Min(DurationOr0(st.el), st.el.time + SkipSeconds))

\* ------------------------------------------------------------- transitions
\* a flush whose play() promise was rejected has its catch queued as a microtask
Quiet == \A f \in FlushIds : ~(fl[f].pc = "play" /\ fl[f].rejected)

\* the variables take the values of the state record m
Commit(m, op) ==
    /\ isGenerating' = m.isGenerating /\ isPlaying' = m.isPlaying
    /\ isStreaming' = m.isStreaming /\ status' = m.status
    /\ error' = m.error /\ streamProgress' = m.streamProgress
    /\ timestamps' = m.timestamps /\ currentWordIndex' = m.currentWordIndex
    /\ audioEl' = m.audioEl /\ el' = m.el /\ blobUrl' = m.blobUrl
    /\ ctrl' = m.ctrl /\ chunks' = m.chunks /\ totalChunks' = m.totalChunks
    /\ timer' = m.timer /\ intervals' = m.intervals
    /\ playbackStarted' = m.playbackStarted
    /\ sess' = m.sess /\ fl' = m.fl /\ waitq' = m.waitq /\ live' = m.live
    /\ done' = m.done /\ appended' = m.appended /\ env' = m.env
    /\ lastOp' = op
    /\ al' = al

\* the state after a handler or a continuation ran: the code it reaches
\* without yielding runs, React commits and runs the effects
Do(n, op) == Commit(wordTrackingEffect(Run(n, FALSE)), op)

\* a task runs when no microtask is left
Task(n, op) == Quiet /\ Do(n, op)

Op(name, s, info) == [op |-> name, s |-> s, info |-> info]

\* the microtask of a rejected play() promise: the flush resumes in its catch
PlayRejected ==
    \E f \in FlushIds :
        /\ fl[f].pc = "play" /\ fl[f].rejected
        /\ \A g \in FlushIds : g < f => ~(fl[g].pc = "play" /\ fl[g].rejected)
        /\ Do(flushAfterPlay(Cur, f, FALSE), Op("playRejected", f, ""))

\* the generateSpeech invocation a call starts: the lowest unused one
FreeSess(s) == sess[s].pc = "idle" /\ \A t \in 1..(s - 1) : sess[t].pc # "idle"

\* the phase of the generation whose controller is held
Phase == IF ctrl = 0 THEN "none" ELSE sess[ctrl].pc

\* the user calls generateSpeech with a non-blank text
Generate ==
    \E s \in Sess :
        /\ FreeSess(s) /\ env.gens > 0
        /\ Task(generateSpeech([Cur EXCEPT !.env.gens = @ - 1], s, FALSE),
              Op("generate", s, Phase))

\* the user calls generateSpeech with a blank text
GenerateBlank ==
    /\ env.blanks > 0
    /\ Task(generateSpeech([Cur EXCEPT !.env.blanks = @ - 1], 0, TRUE),
          Op("blank", 0, Phase))

\* the user calls stopPlaying
Stop ==
    /\ env.stops > 0
    /\ Task(stopPlaying([Cur EXCEPT !.env.stops = @ - 1]), Op("stop", ctrl, Phase))

\* the user calls handlePlayPause from a click, which lifts the autoplay block
PlayPause ==
    /\ env.clicks > 0
    /\ Task(handlePlayPause([Cur EXCEPT !.env.clicks = @ - 1, !.env.autoplay = TRUE,
                                      !.env.clicked = TRUE]),
          Op("playpause", 0, IF isPlaying THEN "pause" ELSE "play"))

\* the fetch resolves with an ok response whose body is `body`
FetchOk(s, body) ==
    /\ sess[s].pc = "fetch" /\ ~sess[s].aborted
    /\ Task(fetchOk(Cur, s, body), Op("fetchOk", s, ""))

\* the fetch rejects, or resolves with a status that is not ok
FetchFail(s) ==
    /\ sess[s].pc = "fetch" /\ ~sess[s].aborted /\ env.fails > 0
    /\ \E m \in {"network", "http"} :
           Task(catch([Cur EXCEPT !.env.fails = @ - 1], s, m), Op("fetchFail", s, m))

\* the aborted fetch or read rejects with an AbortError
Aborted(s) ==
    /\ sess[s].pc \in {"fetch", "read"} /\ sess[s].aborted
    /\ Task(catch(Cur, s, "aborted"), Op("aborted", s, sess[s].pc))

\* reader.read() resolves with the next k bytes of the body
Read(s, k) ==
    /\ sess[s].pc = "read" /\ ~sess[s].aborted
    /\ k \in 1..Len(sess[s].net)
    /\ Task(readValue(Cur, s, k), Op("read", s, ""))

\* reader.read() resolves with done
ReadEnd(s) ==
    /\ sess[s].pc = "read" /\ ~sess[s].aborted /\ sess[s].net = <<>>
    /\ Task(readDone(Cur, s), Op("readEnd", s, ""))

\* reader.read() rejects with a network error
ReadFail(s) ==
    /\ sess[s].pc = "read" /\ ~sess[s].aborted /\ env.fails > 0
    /\ Task(catch([Cur EXCEPT !.env.fails = @ - 1], s, "network"),
          Op("readFail", s, ""))

\* the element fires canplaythrough for the resource it loaded
CanPlay ==
    /\ audioEl # 0 /\ el.src # 0 /\ el.content # <<>> /\ ~el.ready
    /\ Task(Resolve([Cur EXCEPT !.el.ready = TRUE], waitq), Op("canplay", 0, ""))

\* the readiness timeout of a waiting flush fires
WaitTimeout(f) ==
    /\ fl[f].pc = "wait"
    /\ Task(flushAfterWait(Cur, f, FALSE), Op("timeout", f, ""))

\* playback starts: the pending play() promises resolve
PlayResolve ==
    /\ audioEl # 0 /\ el.ready /\ ~el.paused /\ el.events = <<>>
    /\ \/ el.userPromise
       \/ el.seekPromise
       \/ \E f \in FlushIds : fl[f].pc = "play"
    /\ LET a == [Cur EXCEPT !.el.userPromise = FALSE, !.el.seekPromise = FALSE,
                            !.isPlaying = IF el.seekPromise THEN TRUE ELSE @]
       IN  IF \E f \in FlushIds : fl[f].pc = "play"
           THEN Task(flushAfterPlay(a, CHOOSE f \in FlushIds : fl[f].pc = "play", TRUE),
                   Op("playing", 0, ""))
           ELSE Task(a, Op("playing", 0, ""))

\* the audio clock advances by one unit
Advance ==
    /\ audioEl # 0 /\ el.ready /\ ~el.paused /\ el.time < Duration(el)
    /\ el.events = <<>> /\ ~el.userPromise /\ ~el.seekPromise
    /\ \A f \in FlushIds : fl[f].pc # "play"
    /\ Task([Cur EXCEPT !.el.time = @ + 1], Op("advance", 0, ""))

\* playback has reached the end of the resource: the element pauses itself
\* and fires pause, then ended
PlaybackEnds ==
    /\ audioEl # 0 /\ Ended(el) /\ ~el.paused /\ el.events = <<>>
    /\ ~el.userPromise /\ ~el.seekPromise /\ \A f \in FlushIds : fl[f].pc # "play"
    /\ Len(chunks) > sess[audioEl].lastProcessed
           => fl[EndedFlush].pc \notin {"wait", "play"}
    /\ Task(onEnded(onPause([Cur EXCEPT !.el.paused = TRUE])),
          Op("ended", 0, IF Len(chunks) > sess[audioEl].lastProcessed
                         THEN "flush" ELSE "complete"))

\* the element fires the event that a play(), a pause() or a load queued; the
\* failure steps of an empty src set the element's error, reject the pending
\* play() promises and fire error
MediaEvent ==
    /\ audioEl # 0 /\ el.events # <<>>
    /\ LET a == [Cur EXCEPT !.el.events = Tail(@)]
       IN  IF Head(el.events) = "play"
           THEN Task(onPlay(a), Op("play", 0, ""))
           ELSE IF Head(el.events) = "pause"
           THEN Task(onPause(a), Op("pause", 0, ""))
           ELSE Task(onError(RejectPlays([a EXCEPT !.el.failed = TRUE])),
                     Op("error", 0, ""))

\* the element that generateSpeech replaced fires the error event that the
\* empty src of cleanup queued on it: its 'error' listener runs
OrphanError ==
    /\ el.orphanError
    /\ Task(onError([Cur EXCEPT !.el.orphanError = FALSE]), Op("error", 0, "replaced"))

\* whether the handler passes its guard with a CurrentWordIndex >= 0
Indexed(acts) ==
    IF acts /\ currentWordIndex >= 0 THEN "indexed" ELSE ""

\* the user clicks the progress bar at the point of time t
Seek(t) ==
    /\ env.seeks > 0
    /\ t \in 0..Duration(el)
    /\ Task(handleSeek([Cur EXCEPT !.env.seeks = @ - 1, !.env.autoplay = TRUE,
                                   !.env.clicked = TRUE], t),
            Op("seek", t, Indexed(audioEl # 0 /\ el.ready /\ Duration(el) # 0)))

\* bounds.width of the progress bar when it is laid out
BarWidth == 6

\* the user clicks the progress bar, laid out or not, at an offset from its
\* left edge that may lie outside it
Click(offset, width) ==
    /\ env.seeks > 0
    /\ width > 0 => (Min(width, Max(0, offset)) * Duration(el)) % width = 0
    /\ Task(handleSeekClick([Cur EXCEPT !.env.seeks = @ - 1, !.env.autoplay = TRUE,
                                        !.env.clicked = TRUE], offset, width),
            Op(IF width > 0 THEN "click" ELSE "clickNoWidth", offset,
               Indexed(audioEl # 0 /\ el.ready /\ Duration(el) # 0 /\ width > 0)))

\* the user calls handleRewind
Rewind ==
    /\ env.seeks > 0
    /\ Task(handleRewind([Cur EXCEPT !.env.seeks = @ - 1]),
            Op("rewind", 0, Indexed(audioEl # 0)))

\* the user calls handleForward
Forward ==
    /\ env.seeks > 0
    /\ Task(handleForward([Cur EXCEPT !.env.seeks = @ - 1]),
            Op("forward", 0, Indexed(audioEl # 0)))

\* the word-tracking interval fires
Tick ==
    \E i \in 1..Len(intervals) :
        Task(pollTick(Cur, intervals[i]), Op("tick", 0, ""))

\* ---------------------------------------------------------- specifications
\* the i-th record a server sends: audio with one timestamp entry
Rec(i) == IF i % 2 = 1 THEN <<"{", "A", "p", "}", "n">> ELSE <<"{", "B", "q", "}", "n">>

RECURSIVE Body(_)
Body(n) == IF n = 0 THEN <<>> ELSE Body(n - 1) \o Rec(n)

HookStart(e) ==
    /\ isGenerating = FALSE /\ isPlaying = FALSE /\ isStreaming = FALSE
    /\ status = "" /\ error = "" /\ streamProgress = 0
    /\ timestamps = <<>> /\ currentWordIndex = -1
    /\ audioEl = 0 /\ el = NewAudio /\ blobUrl = 0 /\ ctrl = 0
    /\ chunks = <<>> /\ totalChunks = 0 /\ timer = FALSE /\ intervals = <<>>
    /\ playbackStarted = FALSE
    /\ sess = [s \in Sess |-> IdleSess]
    /\ fl = [f \in FlushIds |-> IdleFlush]
    /\ waitq = <<>> /\ live = {} /\ done = <<>> /\ appended = <<>>
    /\ env = e
    /\ lastOp = Op("init", 0, "")

Start(e) == HookStart(e) /\ al = [pc |-> "unused"]

Env(g, r, b, st, c, f, ap) ==
    [gens |-> g, recs |-> r, blanks |-> b, stops |-> st, clicks |-> c,
     fails |-> f, autoplay |-> ap, clicked |-> FALSE, seeks |-> 0]

\* The hook with its user and its environment, in reads of whole lines:
\* one generation with stopPlaying and handlePlayPause calls and transport
\* failures, in a browser that blocks autoplay or not; or two generations,
\* the later one started while the earlier one is anywhere; or calls with a
\* blank text around one generation.
Init ==
    \/ \E ap \in BOOLEAN :
           Start(Env(1, MaxRecs, 0, MaxStops, MaxClicks, MaxFails, ap))
    \/ Start(Env(2, TwoRecs, 0, 0, 0, 0, TRUE))
    \/ Start(Env(1, 1, MaxBlanks, 0, 0, 0, TRUE))

Next ==
    \/ Generate
    \/ GenerateBlank
    \/ Stop
    \/ PlayPause
    \/ \E s \in Sess, n \in 1..(MaxRecs + TwoRecs) :
           n <= env.recs /\ FetchOk(s, Body(n))
    \/ \E s \in Sess : FetchFail(s)
    \/ \E s \in Sess : Aborted(s)
    \/ \E s \in Sess, k \in 1..(5 * (MaxRecs + TwoRecs)) :
           k <= Len(sess[s].net) /\ sess[s].net[k] = "n" /\ Read(s, k)
    \/ \E s \in Sess : ReadEnd(s)
    \/ \E s \in Sess : ReadFail(s)
    \/ CanPlay
    \/ \E f \in FlushIds : WaitTimeout(f)
    \/ PlayResolve
    \/ PlayRejected
    \/ Advance
    \/ PlaybackEnds
    \/ MediaEvent
    \/ OrphanError
    \/ Tick

Spec == Init /\ [][Next]_vars

\* ------------------------------------------------------ splitting of reads
\* the lines a response stream is made of: two records with audio (the second
\* with a non-ASCII word), a record without audio, an empty line and a line
\* that is not JSON
LineKinds ==
    { <<"{", "A", "p", "}">>, <<"{", "B", "m1", "m2", "}">>, <<"{", "q", "}">>,
      <<>>, <<"{", "A">> }

\* the streams of n newline-terminated lines
RECURSIVE Streams(_)
Streams(n) ==
    IF n = 0 THEN {<<>>}
    ELSE {b \o l \o <<"n">> : b \in Streams(n - 1), l \in LineKinds}

\* response bodies: up to MaxLines terminated lines, then nothing or a record
\* that no newline ends
LineBodies ==
    UNION {{b \o t : b \in Streams(n), t \in {<<>>, <<"{", "A", "}">>}} :
           n \in 1..MaxLines}

\* One generation whose response arrives in reads that end at any byte.
InitLines == Start(Env(1, 0, 0, 0, 0, 0, TRUE))

NextLines ==
    \/ Generate
    \/ \E s \in Sess, body \in LineBodies : FetchOk(s, body)
    \/ \E s \in Sess : \E k \in 1..Len(sess[s].net) : Read(s, k)
    \/ \E s \in Sess : ReadEnd(s)
    \/ CanPlay
    \/ \E f \in FlushIds : WaitTimeout(f)
    \/ PlayResolve
    \/ MediaEvent

SpecLines == InitLines /\ [][NextLines]_vars

\* the text of all the bytes delivered so far, decoded in one piece
Whole(s) == decode(<<>>, sess[s].delivered).text

Newlines(text) == {i \in 1..Len(text) : text[i] = "n"}

\* the k-th newline of a text
NthNewline(text, k) ==
    CHOOSE i \in Newlines(text) : Cardinality({j \in Newlines(text) : j < i}) = k - 1

\* the newline-terminated lines of a text, in order
TerminatedLines(text) ==
    [k \in 1..Cardinality(Newlines(text)) |->
        SubSeq(text,
               IF k = 1 THEN 1 ELSE NthNewline(text, k - 1) + 1,
               NthNewline(text, k) - 1)]

\* what follows the last newline of a text
Unterminated(text) ==
    SubSeq(text,
           IF Newlines(text) = {} THEN 1
           ELSE NthNewline(text, Cardinality(Newlines(text))) + 1,
           Len(text))

\* the records among some lines, in order
RecordsOf(ls) ==
    LET good == SelectSeq(ls, LAMBDA l : JSONparse(l).ok)
    IN  [i \in 1..Len(good) |->
            [audio |-> JSONparse(good[i]).audio, ts |-> JSONparse(good[i]).ts]]

\* the decoded audio of some records, in order
AudioOf(rs) ==
    LET withAudio == SelectSeq(rs, LAMBDA r : r.audio # "" /\ ValidBase64(r.audio))
    IN  [i \in 1..Len(withAudio) |-> base64ToArrayBuffer(withAudio[i].audio)]

\* C1: however the reads cut the stream, the records processed so far plus
\* those of the lines still waiting in the current read are exactly the
\* records of the newline-terminated lines delivered so far, each once, whole
\* and in order; the decoded audio pushed is that of the processed records in
\* order; and the text after the last newline is held over for the next read.
C1_EveryRecordOnce ==
    \A s \in Sess :
        sess[s].pc \in {"read", "flush", "finalFlush", "done"} =>
            /\ sess[s].parsed \o RecordsOf(sess[s].lines)
                   = RecordsOf(TerminatedLines(Whole(s)))
            /\ sess[s].pushed = AudioOf(sess[s].parsed)
            /\ sess[s].incomplete = Unterminated(Whole(s))

\* a stream of two records with audio ended, a read boundary having fallen
\* inside a line, and both decoded fragments were pushed in order
C1_Witness ==
    \E s \in Sess :
        /\ sess[s].pc = "done" /\ sess[s].held
        /\ Len(sess[s].parsed) = 2
        /\ sess[s].pushed = << <<"a">>, <<"b">> >>

\* ----------------------------------------------------------- word tracking
\* the TimestampSequences of 1..n words
RECURSIVE Words(_)
Words(n) ==
    IF n = 1 THEN {<<c>> : c \in TsChars}
    ELSE Words(n - 1) \cup {w \o <<c>> : w \in Words(n - 1), c \in TsChars}

\* n records that carry audio only
RECURSIVE Filler(_)
Filler(n) == IF n = 0 THEN <<>> ELSE <<"{", "B", "}", "n">> \o Filler(n - 1)

\* response bodies: a record with audio and the words, then audio up to a
\* duration of MaxTime
TrackBodies ==
    {<<"{", "A">> \o w \o <<"}", "n">> \o Filler(MaxTime - 1) : w \in Words(MaxWords)}

\* One generation that plays to its end while the interval polls; the
\* response arrives in one read.
InitTrack == Start(Env(1, 0, 0, 0, 0, 0, TRUE))

NextTrack ==
    \/ Generate
    \/ \E s \in Sess, body \in TrackBodies : FetchOk(s, body)
    \/ \E s \in Sess : Read(s, Len(sess[s].net))
    \/ \E s \in Sess : ReadEnd(s)
    \/ CanPlay
    \/ PlayResolve
    \/ Advance
    \/ PlaybackEnds
    \/ MediaEvent
    \/ Tick

SpecTrack == InitTrack /\ [][NextTrack]_vars

\* the interval of word i (from 1) holds the playback position
Holds(i) ==
    /\ timestamps[i].start_time <= el.time
    /\ el.time <= timestamps[i].end_time

\* C6: after a tick of the poll, when some interval holds the playback
\* position, CurrentWordIndex is the smallest index whose interval does.
C6_TickPicksFirst ==
    lastOp.op = "tick" =>
        \A i \in 1..Len(timestamps) :
            (Holds(i) /\ \A j \in 1..(i - 1) : ~Holds(j)) => currentWordIndex = i - 1

\* a tick ran at a position that two intervals hold, and the index is that of
\* the first of them
C6_Witness ==
    /\ lastOp.op = "tick"
    /\ \E i, j \in 1..Len(timestamps) :
           /\ i < j /\ Holds(i) /\ Holds(j)
           /\ \A k \in 1..(i - 1) : ~Holds(k)
           /\ currentWordIndex = i - 1
           /\ i > 1

\* C26: a tick of the poll at a playback position that no interval holds
\* leaves CurrentWordIndex as it was.
C26_TickInGapKeepsIndex ==
    [][(lastOp'.op = "tick" /\ \A i \in 1..Len(timestamps) : ~Holds(i))
           => currentWordIndex' = currentWordIndex]_vars

\* a tick ran past the last word while a word was current
C26_Witness ==
    /\ lastOp.op = "tick"
    /\ Len(timestamps) > 0
    /\ \A i \in 1..Len(timestamps) : el.time > timestamps[i].end_time
    /\ currentWordIndex >= 0

\* a generateSpeech invocation that has not returned
Active(s) == sess[s].pc \in {"fetch", "read", "flush", "finalFlush"}

\* a later generateSpeech invocation has been made
Superseded(s) == \E t \in Sess : t > s /\ sess[t].pc # "idle"

\* a flush that has not returned
InProgress(f) == fl[f].pc \in {"wait", "play"}

\* C2: once generateSpeech is called while an earlier generation is requesting
\* or streaming, the earlier one is cancelled: its request is aborted, no
\* fragment of it is in the chunk buffer, the TimestampSequence is not its
\* own, and no flush runs on its behalf.
C2_EarlierCancelled ==
    \A s \in Sess :
        Superseded(s) =>
            /\ Active(s) => sess[s].aborted
            /\ \A i \in 1..Len(appended) : appended[i].by # s
            /\ sess[s].allTs # <<>> => timestamps # sess[s].allTs
            /\ ~InProgress(s)

\* the phases in which a generation is requesting or streaming
Busy == {"fetch", "read", "flush", "finalFlush"}

\* C3: after stopPlaying ran while the generation was requesting or streaming,
\* the request is aborted, the audio is paused with no source, the object URL
\* is released, the poll timer is cleared, the chunk buffer and the
\* TimestampSequence are empty, CurrentWordIndex is -1, and isPlaying,
\* isGenerating and isStreaming are false.
C3_StopTearsDown ==
    (lastOp.op = "stop" /\ lastOp.info \in Busy) =>
        /\ sess[lastOp.s].aborted /\ ctrl = 0
        /\ el.paused /\ el.src = 0
        /\ blobUrl = 0 /\ live = {}
        /\ ~timer
        /\ chunks = <<>> /\ timestamps = <<>>
        /\ currentWordIndex = -1
        /\ ~isPlaying /\ ~isGenerating /\ ~isStreaming

\* stopPlaying ran while a flush of a streaming generation that had pushed
\* chunks and timestamps was waiting
C3_Witness ==
    /\ lastOp.op = "stop" /\ lastOp.info = "flush"
    /\ sess[lastOp.s].pushed # <<>> /\ sess[lastOp.s].allTs # <<>>
    /\ InProgress(lastOp.s)

\* the handlers that end with cleanup()
Teardowns == {"generate", "stop", "aborted", "fetchFail", "readFail"}

\* C4: at most one object URL is live; while the element has a source it is
\* the one live URL, the one the hook holds; after a teardown none is live.
C4_OneLiveUrl ==
    /\ Cardinality(live) <= 1
    /\ live = (IF blobUrl = 0 THEN {} ELSE {blobUrl})
    /\ el.src # 0 => live = {el.src}
    /\ lastOp.op \in Teardowns => live = {}

\* a second flush replaced the URL of the first: one URL is live
C4_Witness ==
    \E s \in Sess :
        /\ fl[s].pc = "wait" /\ fl[s].caller = "next"
        /\ sess[s].lastProcessed >= 1
        /\ live = {el.src}

\* the bytes of the first n of some byte arrays, in order
RECURSIVE Concat(_, _)
Concat(arrays, n) ==
    IF n = 0 THEN <<>> ELSE Concat(arrays, n - 1) \o arrays[n]

\* C5: the blob a flush of a session builds holds exactly the chunks appended
\* in that session so far, concatenated in the order they arrived.
C5_BlobIsSessionChunks ==
    \A s \in Sess :
        InProgress(s) => fl[s].blob = Concat(sess[s].pushed, Len(sess[s].pushed))

\* ----------------------------------------------------------------- flushes
\* the flushes that returned in the last task
Returned == {done[i] : i \in 1..Len(done)}

\* C7: a first-fragment flush with forcePlay calls play once its wait for
\* readiness is over, whether readiness arrived or the timeout won.
C7_FirstFlushPlays ==
    \A r \in Returned :
        (r.caller = "first" /\ r.forcePlay /\ r.elem = audioEl) => r.played

\* C8: a flush that starts when the element has played to its end (the user
\* never having clicked), while the stream delivers or from the ended
\* listener, resumes playback with the new content once the element is ready.
C8_EndedFlushResumes ==
    \A r \in Returned :
        (r.caller \in {"next", "ended"} /\ r.wasEnded /\ r.canPlay /\ ~env.clicked)
            => r.played

\* C9: at most one flush is in progress at any time.
C9_OneFlush == Cardinality({f \in FlushIds : InProgress(f)}) <= 1

\* C10: a later-fragment flush leaves the play state and the position as they
\* were: if the audio was playing it plays again from the same position, and
\* if it was paused (and not at its end) play is not called.
C10_LaterFlushKeepsPlayState ==
    \A r \in Returned :
        r.caller = "next" =>
            /\ (r.wasPlaying /\ r.canPlay) => (r.played /\ r.posAfter = r.pos)
            /\ (~r.wasPlaying /\ ~r.wasEnded) => ~r.played

\* ------------------------------------------------------------------ seeking
\* response bodies: a record with audio and one word, then audio up to a
\* duration of MaxTime
SeekBodies ==
    {<<"{", "A">> \o w \o <<"}", "n">> \o Filler(MaxTime - 1) : w \in Words(1)}

\* One generation that plays while the interval polls and the user seeks,
\* rewinds and forwards; the response arrives in one read.
InitSeek == Start([Env(1, 0, 0, 0, 0, 0, TRUE) EXCEPT !.seeks = MaxSeeks])

NextSeek ==
    \/ Generate
    \/ \E s \in Sess, body \in SeekBodies : FetchOk(s, body)
    \/ \E s \in Sess : Read(s, Len(sess[s].net))
    \/ \E s \in Sess : ReadEnd(s)
    \/ CanPlay
    \/ PlayResolve
    \/ Advance
    \/ PlaybackEnds
    \/ MediaEvent
    \/ Tick
    \/ \E t \in 0..MaxTime : Seek(t)
    \/ \E offset \in (-1)..(BarWidth + 1), width \in {0, BarWidth} : Click(offset, width)
    \/ Rewind
    \/ Forward

SpecSeek == InitSeek /\ [][NextSeek]_vars

\* C11: a seek, a rewind or a forward call made while CurrentWordIndex is
\* >= 0 leaves it at -1.
C11_SeekResetsIndex ==
    (lastOp.op \in {"seek", "rewind", "forward"} /\ lastOp.info = "indexed")
        => currentWordIndex = -1

\* the offset of a click brought into the bar
InBar(offset) == IF offset < 0 THEN 0 ELSE IF offset > BarWidth THEN BarWidth ELSE offset

C12_StopIdempotent ==
    /\ stopPlaying(stopPlaying(Cur)) = stopPlaying(Cur)
    /\ cleanup(cleanup(Cur)) = cleanup(Cur)

\* stopPlaying has torn down a streaming session that held chunks and
\* timestamps, and a second call finds nothing left to change
C12_Witness ==
    /\ lastOp.op = "stop" /\ lastOp.info \in {"read", "flush"}
    /\ sess[lastOp.s].pushed # <<>> /\ sess[lastOp.s].allTs # <<>>
    /\ stopPlaying(Cur) = Cur /\ cleanup(Cur) = Cur

\* C13: a stopPlaying call made while no generation is in progress (none
\* started or the controller released, or the stream read to its end) leaves
\* the TimestampSequence, CurrentWordIndex, the object URL, the audio source,
\* the play state and the progress value as they were.
C13_IdleStopIsNoOp ==
    [][(lastOp'.op = "stop" /\ lastOp'.info \in {"none", "done"}) =>
          /\ timestamps' = timestamps
          /\ currentWordIndex' = currentWordIndex
          /\ blobUrl' = blobUrl /\ el'.src = el.src
          /\ isPlaying' = isPlaying
          /\ streamProgress' = streamProgress]_vars

\* ---- errors ----

\* the messages that the catch of generateSpeech builds from an exception
FailureMessages == {"aborted", "network", "http"}

\* C14: when the request that stopPlaying aborted unwinds, it sets no failure
\* error message.
C14_AbortIsNotFailure ==
    lastOp.op = "aborted" => error \notin FailureMessages

\* C15: after a failed request, a response that is not ok or a failed read,
\* the session is Failed: an error message is set, isGenerating, isStreaming
\* and isPlaying are false, the chunk buffer and the TimestampSequence are
\* empty, the object URL and the audio source are released and
\* CurrentWordIndex is -1.
C15_FailureTearsDown ==
    lastOp.op \in {"fetchFail", "readFail"} =>
        /\ sess[lastOp.s].pc = "failed"
        /\ error # ""
        /\ ~isGenerating /\ ~isStreaming /\ ~isPlaying
        /\ chunks = <<>> /\ timestamps = <<>>
        /\ blobUrl = 0 /\ live = {} /\ el.src = 0 /\ el.paused
        /\ currentWordIndex = -1

\* a read fails after the session pushed chunks and published timestamps
C15_Witness ==
    /\ lastOp.op = "readFail"
    /\ sess[lastOp.s].pushed # <<>> /\ sess[lastOp.s].allTs # <<>>
    /\ error = "network" /\ chunks = <<>> /\ timestamps = <<>>

\* C16: generateSpeech called with a blank text sets the validation message
\* and changes nothing else: no request is started, and the chunk buffer, the
\* TimestampSequence, CurrentWordIndex, the flags, the audio element, the
\* controller and the running generations are as they were.
C16_BlankOnlySetsError ==
    [][lastOp'.op = "blank" =>
          /\ error' = "validation"
          /\ UNCHANGED <<isGenerating, isPlaying, isStreaming, status,
                         streamProgress, timestamps, currentWordIndex, audioEl,
                         el, blobUrl, ctrl, chunks, totalChunks, timer,
                         playbackStarted, sess, fl, waitq, live, appended>>]_vars

\* a blank call made while a generation that pushed chunks is streaming
C16_Witness ==
    /\ lastOp.op = "blank" /\ lastOp.info = "read"
    /\ error = "validation" /\ isGenerating /\ chunks # <<>> /\ ctrl # 0

\* ---- a malformed line between two records ----

\* lines that JSON.parse throws on
BadLines == {<<"{", "A">>, <<"A", "}">>, <<"{", "?", "}">>, <<"}", "{">>}

\* response bodies: a record, a malformed line, a record
MalformedBodies ==
    {<<"{", "A", "p", "}", "n">> \o bad \o <<"n", "{", "B", "q", "}", "n">> :
         bad \in BadLines}

\* One generation whose response arrives in reads that end at any byte.
InitMalformed == Start(Env(1, 0, 0, 0, 0, 0, TRUE))

NextMalformed ==
    \/ Generate
    \/ \E s \in Sess, body \in MalformedBodies : FetchOk(s, body)
    \/ \E s \in Sess : \E k \in 1..Len(sess[s].net) : Read(s, k)
    \/ \E s \in Sess : ReadEnd(s)
    \/ CanPlay
    \/ \E f \in FlushIds : WaitTimeout(f)
    \/ PlayResolve
    \/ MediaEvent

SpecMalformed == InitMalformed /\ [][NextMalformed]_vars

\* the lines among ls that parse
WellFormed(ls) == SelectSeq(ls, LAMBDA l : JSONparse(l).ok)

\* C17: a line that fails JSON.parse is dropped and nothing else is: no
\* session fails and no error is set, the records processed or waiting in the
\* current read are those of the well-formed lines delivered, in order, and at
\* end-of-stream the session completes with the records before and after the
\* malformed line processed.
C17_MalformedLineDropped ==
    \A s \in Sess :
        /\ sess[s].pc # "failed" /\ error = ""
        /\ sess[s].pc \in {"read", "flush", "finalFlush", "done"} =>
               Len(sess[s].parsed) + Len(WellFormed(sess[s].lines))
                   = Len(WellFormed(TerminatedLines(Whole(s))))
        /\ (lastOp.op = "readEnd" /\ lastOp.s = s) =>
               /\ sess[s].pc \in {"finalFlush", "done"}
               /\ sess[s].parsed = <<[audio |-> "A", ts |-> <<TsOf("p")>>],
                                     [audio |-> "B", ts |-> <<TsOf("q")>>]>>
               /\ sess[s].pushed = << <<"a">>, <<"b">> >>
               /\ timestamps = <<TsOf("p"), TsOf("q")>>
        /\ sess[s].pc = "done" => (~isGenerating /\ status = "complete")

\* the stream with a malformed line in the middle was read to its end in
\* several reads and the session completed with both records
C17_Witness ==
    \E s \in Sess :
        /\ sess[s].pc = "done" /\ sess[s].held
        /\ Len(WellFormed(TerminatedLines(Whole(s)))) = 2
        /\ Len(TerminatedLines(Whole(s))) = 3
        /\ Len(sess[s].parsed) = 2 /\ error = ""

\* ---- a rejected play() ----

\* C18: whenever a flush, first or later, awaits play(), the rejection of that
\* promise is caught and surfaced as the status message, and it changes
\* nothing else: no error, no session fails, the chunk buffer, the
\* TimestampSequence, the object URL and the flags stay.
C18_PlayRejectionSurfaced ==
    \A f \in FlushIds :
        fl[f].pc = "play" =>
            /\ flushAfterPlay(Cur, f, FALSE).status = "clickPlay"
            /\ flushAfterPlay(Cur, f, FALSE).error = error
            /\ flushAfterPlay(Cur, f, FALSE).sess = sess
            /\ flushAfterPlay(Cur, f, FALSE).chunks = chunks
            /\ flushAfterPlay(Cur, f, FALSE).timestamps = timestamps
            /\ flushAfterPlay(Cur, f, FALSE).blobUrl = blobUrl
            /\ flushAfterPlay(Cur, f, FALSE).isGenerating = isGenerating

\* ---- the end of the stream ----

\* C19: when the session is marked complete, the records processed are those
\* of every line of the stream, the one that end-of-stream terminated
\* included, and the audio pushed is theirs.
C19_LastRecordKept ==
    \A s \in Sess :
        sess[s].pc = "done" =>
            /\ sess[s].parsed
                   = RecordsOf(TerminatedLines(Whole(s)) \o <<Unterminated(Whole(s))>>)
            /\ sess[s].pushed = AudioOf(sess[s].parsed)

\* ---- the TimestampSequence of a session ----

\* the fragments among some records: the records that carry audio
Fragments(rs) == SelectSeq(rs, LAMBDA r : r.audio # "" /\ ValidBase64(r.audio))

\* the timestamps of the first n of some fragments, in order
RECURSIVE TimestampsOf(_, _)
TimestampsOf(fs, n) ==
    IF n = 0 THEN <<>> ELSE TimestampsOf(fs, n - 1) \o fs[n].ts

IsPrefix(a, b) == Len(a) <= Len(b) /\ SubSeq(b, 1, Len(a)) = a

\* C20: during a session the TimestampSequence is the concatenation, in
\* arrival order, of the timestamps of the fragments processed so far, and
\* every step of the session leaves the previous value as a prefix of the new.
C20_TimestampsAppendOnly ==
    /\ [](\A s \in Sess :
              sess[s].pc \in {"read", "flush", "finalFlush", "done"} =>
                  timestamps = TimestampsOf(Fragments(sess[s].parsed),
                                            Len(Fragments(sess[s].parsed))))
    /\ [][lastOp'.op # "generate" => IsPrefix(timestamps, timestamps')]_vars

\* two fragments with one timestamp each arrived in different reads and the
\* sequence holds both in fragment order
C20_Witness ==
    \E s \in Sess :
        /\ sess[s].pc \in {"read", "flush", "finalFlush", "done"}
        /\ sess[s].held /\ Len(Fragments(sess[s].parsed)) = 2
        /\ timestamps = <<TsOf("p"), TsOf("M")>>

\* ---- timestamp entries that are not valid ----

\* the timestamp arrays of a fragment: an invalid entry after, before and
\* without valid ones
EntryArrays == {<<"p", "z">>, <<"z", "q">>, <<"z">>}

\* response bodies: two records with audio and timestamps
EntryBodies ==
    {<<"{", "A">> \o e1 \o <<"}", "n", "{", "B">> \o e2 \o <<"}", "n">> :
         e1 \in EntryArrays, e2 \in EntryArrays}

\* One generation whose response arrives in reads that end at any byte.
InitEntries == Start(Env(1, 0, 0, 0, 0, 0, TRUE))

NextEntries ==
    \/ Generate
    \/ \E s \in Sess, body \in EntryBodies : FetchOk(s, body)
    \/ \E s \in Sess : \E k \in 1..Len(sess[s].net) : Read(s, k)
    \/ \E s \in Sess : ReadEnd(s)
    \/ CanPlay
    \/ \E f \in FlushIds : WaitTimeout(f)
    \/ PlayResolve
    \/ MediaEvent

SpecEntries == InitEntries /\ [][NextEntries]_vars

\* typeof ts.word === 'string' && typeof ts.start_time === 'number' && ...
validEntry(ts) == ts.word # NotAString

\* C25: an entry of a fragment's timestamps array whose word is not a string
\* never enters the timestamp sequence; the valid entries of the processed
\* fragments are appended, in order, and no session fails.
C25_InvalidEntriesDropped ==
    /\ \A i \in 1..Len(timestamps) : validEntry(timestamps[i])
    /\ \A s \in Sess :
           /\ sess[s].pc # "failed"
           /\ sess[s].pc = "done" =>
                  timestamps = SelectSeq(TimestampsOf(Fragments(sess[s].parsed),
                                                      Len(Fragments(sess[s].parsed))),
                                         validEntry)

\* ---- termination ----

\* The steps by which the browser settles what the hook awaits: the fetch
\* and each reader.read() resolve or reject, the readiness timeout fires, a
\* loaded resource becomes playable, queued media events are dispatched, and
\* a play() promise resolves or is rejected.
SettleOps ==
    {"fetchOk", "aborted", "read", "readEnd", "timeout", "canplay", "play",
     "pause", "error", "playing", "playRejected"}

\* one of those steps can be taken: the guards of PlayRejected, FetchOk,
\* Aborted, Read, ReadEnd, WaitTimeout, CanPlay, MediaEvent, OrphanError and
\* PlayResolve
CanSettle ==
    \/ ~Quiet
    \/ \E s \in Sess : sess[s].pc = "fetch" /\ ~sess[s].aborted /\ env.recs >= 1
    \/ \E s \in Sess : sess[s].pc \in {"fetch", "read"} /\ sess[s].aborted
    \/ \E s \in Sess : sess[s].pc = "read" /\ ~sess[s].aborted
    \/ \E f \in FlushIds : fl[f].pc = "wait"
    \/ audioEl # 0 /\ el.src # 0 /\ el.content # <<>> /\ ~el.ready
    \/ audioEl # 0 /\ el.events # <<>>
    \/ el.orphanError
    \/ /\ audioEl # 0 /\ el.ready /\ ~el.paused /\ el.events = <<>>
       /\ (el.userPromise \/ el.seekPromise \/ \E f \in FlushIds : fl[f].pc = "play")

\* weak fairness of the settling steps: they are taken again and again unless
\* again and again none can be taken
Settles == []<>(~CanSettle) \/ []<><<lastOp'.op \in SettleOps>>_vars

\* The hook in a browser that keeps settling what is awaited; the user and
\* the transport failures are under no obligation.
SpecLive == Spec /\ Settles

\* no generation and no flush is under way
Quiescent ==
    /\ \A s \in Sess : sess[s].pc \in {"idle", "done", "failed"}
    /\ \A f \in FlushIds : fl[f].pc = "idle"
    /\ ~isGenerating

\* C21: every generation that starts ends, completed or in its catch, with
\* isGenerating false, and every flush returns, the one whose readiness
\* signal never arrives included: again and again nothing is under way.
C21_GenerationEnds == []<>Quiescent

\* the readiness timeout of the final flush fired before canplaythrough, the
\* flush returned and the generation completed
C21_Witness ==
    /\ lastOp.op = "timeout" /\ Quiescent
    /\ done # <<>> /\ ~done[1].canPlay /\ done[1].caller = "final"
    /\ sess[lastOp.s].pc = "done"

\* C22: when reader.read() reports the end of the stream while the audio of
\* the session is paused or ended and chunks were received, a final flush
\* runs before the session is marked complete.
C22_FinalFlushWhenStalled ==
    [][(/\ lastOp'.op = "readEnd"
        /\ audioEl = lastOp'.s /\ chunks # <<>>
        /\ (el.paused \/ Ended(el)))
           => \/ sess'[lastOp'.s].pc = "finalFlush"
              \/ \E i \in 1..Len(done') : done'[i].caller = "final"]_vars

\* ------------------------------------------------- the alignment utilities
\* A token is the sequence of its characters. JavaScript's null and
\* undefined are the empty token and NoTimestamp.
MaxTokens == 2
Tokens == {<<"d">>, <<"d", "t">>, <<"t">>}
null == <<>>
NoTimestamp == [word |-> null, start_time |-> -1, end_time |-> -1]

\* the sequences of at most n elements of S
SeqsUpTo(S, n) == UNION {[1..k -> S] : k \in 0..n}

MATCH_SCORE == 2
MISMATCH_PENALTY == -1
GAP_PENALTY == -1

\* ttsTimestamps[j - 1]: undefined past the end of the array
At(ttsTimestamps, j) ==
    IF j \in 1..Len(ttsTimestamps) THEN ttsTimestamps[j] ELSE NoTimestamp

Pairing(a, b) == IF a = b THEN MATCH_SCORE ELSE MISMATCH_PENALTY

\* matrix[i][j] of alignSequences
RECURSIVE matrix(_, _, _, _)
matrix(A, B, i, j) ==
    IF i = 0 /\ j = 0 THEN 0
    ELSE IF j = 0 THEN matrix(A, B, i - 1, 0) + GAP_PENALTY
    ELSE IF i = 0 THEN matrix(A, B, 0, j - 1) + GAP_PENALTY
    ELSE Max(matrix(A, B, i - 1, j - 1) + Pairing(A[i], B[j]),
             Max(matrix(A, B, i - 1, j) + GAP_PENALTY,
                 matrix(A, B, i, j - 1) + GAP_PENALTY))

matchRecord(a, b, ts) ==
    [originalWord |-> a, ttsWord |-> b, isMatch |-> (a = b), timestamp |-> ts,
     type |-> "match"]
insertionRecord(b, ts) ==
    [originalWord |-> null, ttsWord |-> b, isMatch |-> FALSE, timestamp |-> ts,
     type |-> "insertion"]
deletionRecord(a) ==
    [originalWord |-> a, ttsWord |-> null, isMatch |-> FALSE,
     timestamp |-> NoTimestamp, type |-> "deletion"]

\* a trace back that takes the diagonal whenever both indices allow it
RECURSIVE traceBackDiagonal(_, _, _, _, _)
traceBackDiagonal(A, B, T, i, j) ==
    IF i = 0 /\ j = 0 THEN <<>>
    ELSE IF i > 0 /\ j > 0
    THEN Append(traceBackDiagonal(A, B, T, i - 1, j - 1),
                matchRecord(A[i], B[j], At(T, j)))
    ELSE IF j > 0
    THEN Append(traceBackDiagonal(A, B, T, i, j - 1), insertionRecord(B[j], At(T, j)))
    ELSE Append(traceBackDiagonal(A, B, T, i - 1, j), deletionRecord(A[i]))

\* the trace back of alignSequences from cell (i, j): each turn of the loop
\* puts its record in front of those of the later turns
RECURSIVE traceBack(_, _, _, _, _)
traceBack(A, B, T, i, j) ==
    IF i = 0 /\ j = 0 THEN <<>>
    ELSE IF /\ i > 0 /\ j > 0
            /\ matrix(A, B, i, j) = matrix(A, B, i - 1, j - 1) + Pairing(A[i], B[j])
    THEN Append(traceBack(A, B, T, i - 1, j - 1), matchRecord(A[i], B[j], At(T, j)))
    ELSE IF j > 0 /\ (i = 0 \/ matrix(A, B, i, j) = matrix(A, B, i, j - 1) + GAP_PENALTY)
    THEN Append(traceBack(A, B, T, i, j - 1), insertionRecord(B[j], At(T, j)))
    ELSE Append(traceBack(A, B, T, i - 1, j), deletionRecord(A[i]))

\* the tokens that end a contraction
ContractionParts ==
    {<<"'">>, <<"t">>, <<"s">>, <<"r", "e">>, <<"v", "e">>, <<"l", "l">>}

\* a test that takes any record with a contraction part for the second half
isSplitContractionAnyNext(current, next) ==
    /\ current.ttsWord # null /\ next.ttsWord # null
    /\ current.originalWord # null
    /\ next.ttsWord \in ContractionParts

\* Case 1 of postProcessAlignment
isSplitContraction(current, next) ==
    /\ current.ttsWord # null /\ next.ttsWord # null
    /\ current.originalWord # null /\ next.originalWord = null
    /\ next.ttsWord \in ContractionParts

\* a contraction record that keeps the end time of its first half
contractionRecordKeepsEnd(current, next) ==
    [originalWord |-> current.originalWord,
     ttsWord |-> current.ttsWord \o next.ttsWord,
     isMatch |-> TRUE,
     timestamp |->
         [word |-> current.ttsWord \o next.ttsWord,
          start_time |-> IF current.timestamp # NoTimestamp
                         THEN current.timestamp.start_time
                         ELSE next.timestamp.start_time,
          end_time |-> current.timestamp.end_time],
     type |-> "contraction"]

\* processed.push({...}) of Case 1
contractionRecord(current, next) ==
    [originalWord |-> current.originalWord,
     ttsWord |-> current.ttsWord \o next.ttsWord,
     isMatch |-> TRUE,
     timestamp |->
         [word |-> current.ttsWord \o next.ttsWord,
          start_time |-> IF current.timestamp # NoTimestamp
                         THEN current.timestamp.start_time
                         ELSE next.timestamp.start_time,
          end_time |-> IF next.timestamp # NoTimestamp
                       THEN next.timestamp.end_time
                       ELSE current.timestamp.end_time],
     type |-> "contraction"]

\* the loop of postProcessAlignment from index i on
RECURSIVE postProcessFrom(_, _)
postProcessFrom(alignment, i) ==
    IF i > Len(alignment) THEN <<>>
    ELSE IF i < Len(alignment) /\ isSplitContraction(alignment[i], alignment[i + 1])
    THEN <<contractionRecord(alignment[i], alignment[i + 1])>>
             \o postProcessFrom(alignment, i + 2)
    ELSE <<alignment[i]>> \o postProcessFrom(alignment, i + 1)

postProcessAlignment(alignment) == postProcessFrom(alignment, 1)

\* alignSequences(originalTokens, ttsTokens, ttsTimestamps)
alignSequences(A, B, T) == postProcessAlignment(traceBack(A, B, T, Len(A), Len(B)))

\* the timestamps of the TTS words B: word j spoken from j - 1 to j
TimestampsFor(B) ==
    [j \in 1..Len(B) |-> [word |-> B[j], start_time |-> j - 1, end_time |-> j]]

\* The utilities applied to every pair of token sequences of at most
\* MaxTokens tokens, the timestamps array holding an entry for every TTS
\* token or lacking the last one.
InitAlign ==
    /\ HookStart(Env(0, 0, 0, 0, 0, 0, TRUE))
    /\ \E A \in SeqsUpTo(Tokens, MaxTokens), B \in SeqsUpTo(Tokens, MaxTokens),
          short \in {0, 1} :
           /\ short <= Len(B)
           /\ al = [pc |-> "tokens", original |-> A, tts |-> B,
                    stamps |-> SubSeq(TimestampsFor(B), 1, Len(B) - short)]

hookVars == <<isGenerating, isPlaying, isStreaming, status, error, streamProgress,
              timestamps, currentWordIndex, audioEl, el, blobUrl, ctrl, chunks,
              totalChunks, timer, intervals, playbackStarted, sess, fl, waitq, live, done,
              appended, env>>

\* steps 1 and 2 of alignSequences: the matrix and the trace back
TraceBack ==
    /\ al.pc = "tokens"
    /\ al' = [pc |-> "raw", original |-> al.original, tts |-> al.tts,
              stamps |-> al.stamps,
              raw |-> traceBack(al.original, al.tts, al.stamps,
                                Len(al.original), Len(al.tts))]
    /\ lastOp' = Op("traceBack", 0, "")
    /\ UNCHANGED hookVars

\* step 3 of alignSequences
PostProcess ==
    /\ al.pc = "raw"
    /\ al' = [pc |-> "aligned", original |-> al.original, tts |-> al.tts,
              stamps |-> al.stamps, raw |-> al.raw,
              aligned |-> postProcessAlignment(al.raw)]
    /\ lastOp' = Op("postProcess", 0, "")
    /\ UNCHANGED hookVars

NextAlign == TraceBack \/ PostProcess

SpecAlign == InitAlign /\ [][NextAlign]_vars

\* C23: when the original tokens are the TTS tokens, the alignment has one
\* record per token, record i is a match of original token i with TTS token
\* i, and no record is an insertion, a deletion or a contraction.
C23_EqualTokensAllMatch ==
    (al.pc = "aligned" /\ al.original = al.tts) =>
        /\ Len(al.aligned) = Len(al.original)
        /\ \A i \in 1..Len(al.aligned) :
               /\ al.aligned[i].type = "match" /\ al.aligned[i].isMatch
               /\ al.aligned[i].originalWord = al.original[i]
               /\ al.aligned[i].ttsWord = al.tts[i]
               /\ al.aligned[i].timestamp = At(al.stamps, i)

\* equal sequences of MaxTokens tokens that hold a contraction part were
\* aligned
C23_Witness ==
    /\ al.pc = "aligned" /\ al.original = al.tts
    /\ Len(al.original) = MaxTokens /\ al.original[MaxTokens] = <<"t">>
    /\ Len(al.aligned) = MaxTokens

\* ---- after stop ----

\* stopPlaying aborted session s and no generateSpeech call followed
StoppedFor(s) == sess[s].aborted /\ ~Superseded(s)

\* C31: after stopPlaying aborted a streaming generation, and until the next
\* generateSpeech call, the chunk buffer and the TimestampSequence stay empty
\* and no object URL is created.
C31_StaysTornDown ==
    \A s \in Sess :
        StoppedFor(s) =>
            /\ chunks = <<>> /\ timestamps = <<>>
            /\ blobUrl = 0 /\ live = {}

\* ---- an earlier generation ends during a later one ----

\* the steps in which a generation runs its end-of-stream code or its catch
EndPaths == {"readEnd", "aborted", "fetchFail", "readFail"}

\* C32: the end-of-stream code and the catch block of an earlier generation
\* leave the state of a later generation that is still running as it was:
\* isGenerating, isStreaming, the audio element, the chunk buffer, the
\* timestamps and the error string.
C32_EarlierEndLeavesLater ==
    [][\A s, t \in Sess :
           (/\ s < t /\ lastOp'.op \in EndPaths /\ lastOp'.s = s
            /\ Active(t) /\ ~Superseded(t) /\ ~sess[t].aborted
            /\ isGenerating)
           => /\ isGenerating' /\ isStreaming' = isStreaming
              /\ audioEl' = audioEl /\ el'.src = el.src
              /\ chunks' = chunks /\ timestamps' = timestamps
              /\ error' = error
      ]_vars

\* ---- a user action during the readiness wait ----

\* C33: when the user pauses through handlePlayPause while a flush waits for
\* the readiness signal, the element is still paused when that flush has
\* finished waiting.
C33_UserPauseSurvivesFlush ==
    [][\A f \in FlushIds :
           (/\ lastOp.op = "playpause" /\ lastOp.info = "pause"
            /\ fl[f].pc = "wait"
            /\ lastOp'.op \in {"canplay", "timeout"} /\ fl'[f].pc # "wait")
           => el'.paused
      ]_vars

\* ---- the range of CurrentWordIndex ----

\* records in the longer of the response streams of two generations whose
\* streams differ in length
RegenRecs == 2

\* Two generations, the second requested before the first has ended, with
\* response streams of one record or of two; each response arrives in one
\* read and the interval polls during playback.
InitRegen == Start(Env(2, RegenRecs, 0, 0, 0, 0, TRUE))

NextRegen ==
    \/ Generate
    \/ \E s \in Sess, n \in 1..RegenRecs : FetchOk(s, Body(n))
    \/ \E s \in Sess : Read(s, Len(sess[s].net))
    \/ \E s \in Sess : ReadEnd(s)
    \/ CanPlay
    \/ \E f \in FlushIds : WaitTimeout(f)
    \/ PlayResolve
    \/ PlayRejected
    \/ Advance
    \/ PlaybackEnds
    \/ MediaEvent
    \/ OrphanError
    \/ Tick

SpecRegen == InitRegen /\ [][NextRegen]_vars

\* C34: in every reachable state CurrentWordIndex is -1 or a valid index
\* into the current TimestampSequence (0 <= index < length).
C34_IndexInRange ==
    currentWordIndex = -1 \/ currentWordIndex \in 0..(Len(timestamps) - 1)

\* ---- the word-tracking poll timer ----

\* the handlers that tear the session down
TeardownOps == {"stop", "generate", "fetchFail", "readFail", "aborted"}

\* C40: at most one word-tracking poll timer exists at any time, and once
\* the state updates have settled one exists exactly when isPlaying is true
\* and the TimestampSequence is non-empty; after stop or teardown none
\* exists, and no timer is left that polls an older TimestampSequence.
C40_OnePollTimer ==
    /\ Len(intervals) <= 1
    /\ (intervals # <<>>) <=> (isPlaying /\ timestamps # <<>>)
    /\ timer <=> (intervals # <<>>)
    /\ lastOp.op \in TeardownOps => intervals = <<>>
    /\ \A i \in 1..Len(intervals) : intervals[i].timestamps = timestamps

\* after the TimestampSequence grew to two words the one interval, set anew,
\* ticked and moved the index to the second word
C40_Witness ==
    /\ lastOp.op = "tick"
    /\ Len(intervals) = 1 /\ isPlaying
    /\ Len(timestamps) = 2 /\ currentWordIndex = 1

\* ---- audio that fails base64 decoding ----

\* response bodies: two records whose audio decodes or not
DecodeBodies ==
    {<<"{", a1, "p", "}", "n", "{", a2, "q", "}", "n">> :
         a1 \in AudioChars, a2 \in AudioChars}

\* One generation whose response arrives in reads of whole lines.
InitDecode == Start(Env(1, 0, 0, 0, 0, 0, TRUE))

NextDecode ==
    \/ Generate
    \/ \E s \in Sess, body \in DecodeBodies : FetchOk(s, body)
    \/ \E s \in Sess : \E k \in 1..Len(sess[s].net) :
           sess[s].net[k] = "n" /\ Read(s, k)
    \/ \E s \in Sess : ReadEnd(s)
    \/ CanPlay
    \/ \E f \in FlushIds : WaitTimeout(f)
    \/ PlayResolve
    \/ Advance
    \/ PlaybackEnds
    \/ MediaEvent

SpecDecode == InitDecode /\ [][NextDecode]_vars

\* C35: the first chunk that enters the chunk buffer in a session is flushed
\* with forcePlay set, also when earlier fragments failed base64 decoding: the
\* received-fragment counter never runs ahead of the number of chunks in the
\* buffer.
C35_FirstChunkForcePlay ==
    \A s \in Sess :
        /\ sess[s].received <= Len(chunks)
        /\ (fl[s].caller \in {"first", "next"} /\ Len(sess[s].pushed) = 1)
               => fl[s].forcePlay

\* ---- the edit script ----

\* the original tokens and the TTS tokens that the records of a script carry
RECURSIVE OriginalsOf(_)
OriginalsOf(script) ==
    IF script = <<>> THEN <<>>
    ELSE IF Head(script).originalWord # null
    THEN <<Head(script).originalWord>> \o OriginalsOf(Tail(script))
    ELSE OriginalsOf(Tail(script))

RECURSIVE TtsOf(_)
TtsOf(script) ==
    IF script = <<>> THEN <<>>
    ELSE IF Head(script).ttsWord # null
    THEN <<Head(script).ttsWord>> \o TtsOf(Tail(script))
    ELSE TtsOf(Tail(script))

\* the score of a script: a pair of equal tokens counts MATCH_SCORE, a pair
\* of different tokens MISMATCH_PENALTY, an insertion or a deletion
\* GAP_PENALTY
RECURSIVE ScoreOf(_)
ScoreOf(script) ==
    IF script = <<>> THEN 0
    ELSE ScoreOf(Tail(script))
             + (IF Head(script).type = "match"
                THEN (IF Head(script).originalWord = Head(script).ttsWord
                      THEN MATCH_SCORE ELSE MISMATCH_PENALTY)
                ELSE GAP_PENALTY)

\* the scores of all global alignments of A and B, built from the front
RECURSIVE ScoresOfAll(_, _)
ScoresOfAll(A, B) ==
    IF A = <<>> THEN {Len(B) * GAP_PENALTY}
    ELSE IF B = <<>> THEN {Len(A) * GAP_PENALTY}
    ELSE {x + (IF Head(A) = Head(B) THEN MATCH_SCORE ELSE MISMATCH_PENALTY) :
              x \in ScoresOfAll(Tail(A), Tail(B))}
         \cup {x + GAP_PENALTY : x \in ScoresOfAll(Tail(A), B)}
         \cup {x + GAP_PENALTY : x \in ScoresOfAll(A, Tail(B))}

Optimum(A, B) == CHOOSE x \in ScoresOfAll(A, B) : \A y \in ScoresOfAll(A, B) : y <= x

\* C29: the edit script that alignSequences builds before post-processing
\* spells the original tokens and the TTS tokens in order, pairs two tokens
\* as a match exactly when they are equal, and its score is the optimal
\* global-alignment score.
C29_ScriptWellFormedOptimal ==
    al.pc \in {"raw", "aligned"} =>
        /\ OriginalsOf(al.raw) = al.original
        /\ TtsOf(al.raw) = al.tts
        /\ \A k \in 1..Len(al.raw) :
               /\ al.raw[k].type \in {"match", "insertion", "deletion"}
               /\ al.raw[k].type = "match" <=>
                      (al.raw[k].originalWord # null /\ al.raw[k].ttsWord # null)
               /\ al.raw[k].isMatch <=>
                      (al.raw[k].type = "match"
                           /\ al.raw[k].originalWord = al.raw[k].ttsWord)
        /\ ScoreOf(al.raw) = Optimum(al.original, al.tts)

\* the script of two sequences of MaxTokens tokens holds a deletion, a
\* match of equal tokens and an insertion
C29_Witness ==
    /\ al.pc = "raw"
    /\ Len(al.original) = MaxTokens /\ Len(al.tts) = MaxTokens
    /\ \E i, j, k \in 1..Len(al.raw) :
           /\ al.raw[i].type = "deletion"
           /\ al.raw[j].isMatch
           /\ al.raw[k].type = "insertion"

\* ---- the isPlaying flag ----

\* the element has nothing left to fire or to settle: no event is queued,
\* playback has not just reached the end of the resource, no flush waits for
\* canplay or for its play() and no play() promise is pending
NoEventPending ==
    /\ \A f \in FlushIds : ~InProgress(f)
    /\ audioEl # 0 =>
           /\ el.events = <<>> /\ ~el.userPromise /\ ~el.seekPromise
           /\ ~(Ended(el) /\ ~el.paused)

\* the audio element is actually playing
ActuallyPlaying == audioEl # 0 /\ ~el.paused /\ ~Ended(el)

\* C27: whenever no audio event is pending, isPlaying is true exactly when
\* the audio element is playing (neither paused nor ended).
C27_IsPlayingTracksElement ==
    NoEventPending => (isPlaying <=> ActuallyPlaying)

\* ---- mapAlignedPositionsInText ----

\* text.split(/(\s+)/): the runs without whitespace and, between them, the
\* runs of whitespace; the first and the last piece may be empty
RECURSIVE run(_, _)
run(text, ws) ==
    IF text = <<>> \/ ((Head(text) = " ") # ws) THEN <<>>
    ELSE <<Head(text)>> \o run(Tail(text), ws)

RECURSIVE splitWhitespace(_)
splitWhitespace(text) ==
    IF Len(run(text, FALSE)) = Len(text) THEN <<text>>
    ELSE <<run(text, FALSE), run(SubSeq(text, Len(run(text, FALSE)) + 1, Len(text)), TRUE)>>
             \o splitWhitespace(
                    SubSeq(text,
                           Len(run(text, FALSE))
                               + Len(run(SubSeq(text, Len(run(text, FALSE)) + 1, Len(text)), TRUE))
                               + 1,
                           Len(text)))

toLowerCase(c) == IF c = "D" THEN "d" ELSE c
WordChars == {"d", "t", "D"}

\* word.toLowerCase().replace(/[^\w]/g, '')
RECURSIVE normalize(_)
normalize(word) ==
    IF word = <<>> THEN <<>>
    ELSE IF Head(word) \in WordChars
    THEN <<toLowerCase(Head(word))>> \o normalize(Tail(word))
    ELSE normalize(Tail(word))

\* String.prototype.includes
includes(a, b) ==
    \E k \in 0..(Len(a) - Len(b)) : SubSeq(a, k + 1, k + Len(b)) = b

mappable(item) == item.originalWord # null /\ item.timestamp # NoTimestamp

position(word, currentPos, item, alignmentIndex) ==
    [word |-> word, start |-> currentPos, end |-> currentPos + Len(word),
     timestamp |-> item.timestamp, isMatch |-> item.isMatch,
     alignIndex |-> alignmentIndex]

\* the first loop over the words, from words[i] on (alignmentIndex counts
\* from 0 as in the code)
RECURSIVE firstPass(_, _, _, _, _, _)
firstPass(words, alignment, i, currentPos, alignmentIndex, positions) ==
    IF i > Len(words) THEN positions
    ELSE IF trim(words[i]) = <<>>
    THEN firstPass(words, alignment, i + 1, currentPos + Len(words[i]),
                   alignmentIndex, positions)
    ELSE IF alignmentIndex >= Len(alignment)
    THEN firstPass(words, alignment, i + 1, currentPos + Len(words[i]),
                   alignmentIndex, positions)
    ELSE IF ~mappable(alignment[alignmentIndex + 1])
    THEN firstPass(words, alignment, i, currentPos, alignmentIndex + 1, positions)
    ELSE IF \/ normalize(words[i]) = normalize(alignment[alignmentIndex + 1].originalWord)
            \/ includes(normalize(words[i]),
                        normalize(alignment[alignmentIndex + 1].originalWord))
            \/ includes(normalize(alignment[alignmentIndex + 1].originalWord),
                        normalize(words[i]))
    THEN firstPass(words, alignment, i + 1, currentPos + Len(words[i]),
                   alignmentIndex + 1,
                   Append(positions,
                          position(words[i], currentPos,
                                   alignment[alignmentIndex + 1], alignmentIndex)))
    ELSE firstPass(words, alignment, i + 1, currentPos + Len(words[i]),
                   alignmentIndex, positions)

similarityScore(textWord, candidateWord) ==
    IF textWord = candidateWord THEN 2
    ELSE IF includes(textWord, candidateWord) \/ includes(candidateWord, textWord)
    THEN 1
    ELSE 0

\* the look-ahead of the second loop: the index of the best of the next five
\* alignment items, -1 when none has an original word and a timestamp
RECURSIVE bestMatch(_, _, _, _, _, _)
bestMatch(alignment, word, alignmentIndex, j, bestMatchIndex, bestMatchScore) ==
    IF j >= 5 \/ alignmentIndex + j >= Len(alignment) THEN bestMatchIndex
    ELSE IF /\ mappable(alignment[alignmentIndex + j + 1])
            /\ similarityScore(normalize(word),
                               normalize(alignment[alignmentIndex + j + 1].originalWord))
                   > bestMatchScore
    THEN bestMatch(alignment, word, alignmentIndex, j + 1, alignmentIndex + j,
                   similarityScore(normalize(word),
                                   normalize(alignment[alignmentIndex + j + 1].originalWord)))
    ELSE bestMatch(alignment, word, alignmentIndex, j + 1, bestMatchIndex, bestMatchScore)

\* secondPassWord without the step past the item it took
secondPassWordStays(alignment, word, currentPos, alignmentIndex, positions, best) ==
    IF best >= 0
    THEN [alignmentIndex |-> best,
          positions |-> Append(positions,
                               position(word, currentPos, alignment[best + 1], best))]
    ELSE [alignmentIndex |-> alignmentIndex + 1, positions |-> positions]

\* one word of the second loop, best being its bestMatchIndex
secondPassWord(alignment, word, currentPos, alignmentIndex, positions, best) ==
    IF best >= 0
    THEN [alignmentIndex |-> best + 1,
          positions |-> Append(positions,
                               position(word, currentPos, alignment[best + 1], best))]
    ELSE [alignmentIndex |-> alignmentIndex + 1, positions |-> positions]

\* the second loop over the words, from words[i] on; r holds alignmentIndex
\* and positions
RECURSIVE secondPass(_, _, _, _, _)
secondPass(words, alignment, i, currentPos, r) ==
    IF i > Len(words) THEN r.positions
    ELSE IF trim(words[i]) = <<>> \/ r.alignmentIndex >= Len(alignment)
    THEN secondPass(words, alignment, i + 1, currentPos + Len(words[i]), r)
    ELSE secondPass(words, alignment, i + 1, currentPos + Len(words[i]),
                    secondPassWord(alignment, words[i], currentPos,
                                   r.alignmentIndex, r.positions,
                                   bestMatch(alignment, words[i], r.alignmentIndex,
                                             0, -1, -1)))

\* `positions.length < alignment.length * 0.5` after the first loop
poorRatio(positions, alignment) == 2 * Len(positions) < Len(alignment)

fallback(words, alignment, positions) ==
    IF poorRatio(positions, alignment)
    THEN secondPass(words, alignment, 1, 0, [alignmentIndex |-> 0, positions |-> <<>>])
    ELSE positions

mapAlignedPositionsInText(text, alignment) ==
    IF text = <<>> \/ alignment = <<>> THEN <<>>
    ELSE fallback(splitWhitespace(text), alignment,
                  firstPass(splitWhitespace(text), alignment, 1, 0, 0, <<>>))

\* bounds of the texts and of the alignments that are mapped
MaxTextWords == 2
MaxItems == 2

TextWords == {<<"d">>, <<"D", "t">>, <<"t", "'">>}
Spaces == {<<" ">>, <<" ", " ">>}

\* the texts of n words
RECURSIVE TextsOf(_)
TextsOf(n) ==
    IF n = 1 THEN TextWords \cup {<<" ">> \o w : w \in TextWords}
    ELSE {t \o sp \o w : t \in TextsOf(n - 1), sp \in Spaces, w \in TextWords}

Texts == UNION {TextsOf(n) : n \in 1..MaxTextWords} \cup {<<"d", " ">>}

\* alignment records: matches of three original words (one of them a quote
\* mark), an insertion, a deletion, and a match without a timestamp
AlignItems ==
    {matchRecord(<<"d">>, <<"d">>, [word |-> <<"d">>, start_time |-> 0, end_time |-> 1]),
     matchRecord(<<"d", "t">>, <<"d">>, [word |-> <<"d">>, start_time |-> 1, end_time |-> 2]),
     matchRecord(<<"'">>, <<"'">>, [word |-> <<"'">>, start_time |-> 2, end_time |-> 3]),
     insertionRecord(<<"t">>, [word |-> <<"t">>, start_time |-> 3, end_time |-> 4]),
     deletionRecord(<<"t">>),
     matchRecord(<<"t">>, <<"t">>, NoTimestamp)}

\* mapAlignedPositionsInText applied to every text of at most MaxTextWords
\* words and every alignment of at most MaxItems records.
InitMap ==
    /\ HookStart(Env(0, 0, 0, 0, 0, 0, TRUE))
    /\ \E text \in Texts, alignment \in SeqsUpTo(AlignItems, MaxItems) :
           al = [pc |-> "text", text |-> text, alignment |-> alignment]

MapPositions ==
    /\ al.pc = "text"
    /\ al' = [pc |-> "mapped", text |-> al.text, alignment |-> al.alignment,
              firstPass |-> IF al.alignment = <<>> THEN <<>>
                            ELSE firstPass(splitWhitespace(al.text), al.alignment,
                                           1, 0, 0, <<>>),
              positions |-> mapAlignedPositionsInText(al.text, al.alignment)]
    /\ lastOp' = Op("mapPositions", 0, "")
    /\ UNCHANGED hookVars

NextMap == MapPositions

SpecMap == InitMap /\ [][NextMap]_vars

\* C24: the list mapAlignedPositionsInText returns is in text order: every
\* range lies in the text and is not empty, each range starts at or after
\* the end of the one before it, and alignIndex strictly increases.
C24_PositionsInTextOrder ==
    al.pc = "mapped" =>
        /\ \A k \in 1..Len(al.positions) :
               /\ 0 <= al.positions[k].start
               /\ al.positions[k].start < al.positions[k].end
               /\ al.positions[k].end <= Len(al.text)
               /\ al.positions[k].alignIndex \in 0..(Len(al.alignment) - 1)
        /\ \A k \in 1..(Len(al.positions) - 1) :
               /\ al.positions[k].start < al.positions[k + 1].start
               /\ al.positions[k].end <= al.positions[k + 1].start
               /\ al.positions[k].alignIndex < al.positions[k + 1].alignIndex

\* the first pass mapped nothing and the fallback pass mapped two words
C24_Witness ==
    /\ al.pc = "mapped"
    /\ al.firstPass = <<>>
    /\ Len(al.positions) = 2

\* ---- the words and the tokens that are paired ----

\* the word of position p and the original token of the record it was paired
\* with are both non-empty once stripped, and one contains the other
reallyMatches(p, alignment) ==
    /\ normalize(p.word) # <<>>
    /\ normalize(alignment[p.alignIndex + 1].originalWord) # <<>>
    /\ \/ includes(normalize(p.word),
                   normalize(alignment[p.alignIndex + 1].originalWord))
       \/ includes(normalize(alignment[p.alignIndex + 1].originalWord),
                   normalize(p.word))

\* C37: every entry that mapAlignedPositionsInText produces, in the first
\* pass and in the fallback pass, pairs a text word with a record whose
\* original token matches it: stripped of non-word characters both are
\* non-empty and one contains the other.
C37_PairedTokenMatchesWord ==
    al.pc = "mapped" =>
        /\ \A k \in 1..Len(al.firstPass) : reallyMatches(al.firstPass[k], al.alignment)
        /\ \A k \in 1..Len(al.positions) : reallyMatches(al.positions[k], al.alignment)

\* ---- postProcessAlignment on any alignment ----

\* the records of an alignment handed to postProcessAlignment: those of
\* AlignItems, an insertion that is no contraction part and an insertion
\* without a timestamp
PostItems ==
    AlignItems
        \cup {insertionRecord(<<"d">>, [word |-> <<"d">>, start_time |-> 4, end_time |-> 5]),
              insertionRecord(<<"t">>, NoTimestamp)}

\* Case 1 reads next.timestamp.start_time or current.timestamp.end_time of a
\* record without a timestamp, which throws a TypeError
throwsTypeError(alignment) ==
    \E k \in 1..(Len(alignment) - 1) :
        /\ isSplitContraction(alignment[k], alignment[k + 1])
        /\ alignment[k].timestamp = NoTimestamp
        /\ alignment[k + 1].timestamp = NoTimestamp

\* postProcessAlignment applied to every alignment of at most MaxItems records
\* on which it returns.
InitPost ==
    /\ HookStart(Env(0, 0, 0, 0, 0, 0, TRUE))
    /\ \E alignment \in SeqsUpTo(PostItems, MaxItems) :
           /\ ~throwsTypeError(alignment)
           /\ al = [pc |-> "script", alignment |-> alignment]

PostProcessItems ==
    /\ al.pc = "script"
    /\ al' = [pc |-> "processed", alignment |-> al.alignment,
              processed |-> postProcessAlignment(al.alignment)]
    /\ lastOp' = Op("postProcess", 0, "")
    /\ UNCHANGED hookVars

NextPost == PostProcessItems

SpecPost == InitPost /\ [][NextPost]_vars

\* the number of adjacent pairs of raw before index k that Test takes
MergesBefore(raw, k, Test(_, _)) ==
    Cardinality({m \in 1..(k - 1) : m < Len(raw) /\ Test(raw[m], raw[m + 1])})

\* out is raw with every adjacent pair that Test takes replaced by one record
\* that Merged accepts, and every other record kept, in order
Replaces(raw, out, Test(_, _), Merged(_, _, _)) ==
    /\ Len(out) = Len(raw) - MergesBefore(raw, Len(raw), Test)
    /\ \A k \in 1..Len(raw) :
           IF k < Len(raw) /\ Test(raw[k], raw[k + 1])
           THEN Merged(raw[k], raw[k + 1], out[k - MergesBefore(raw, k, Test)])
           ELSE IF k > 1 /\ Test(raw[k - 1], raw[k])
           THEN TRUE
           ELSE out[k - MergesBefore(raw, k, Test)] = raw[k]

\* a deletion followed by the insertion of a contraction part
deletionThenPart(current, next) ==
    /\ current.type = "deletion"
    /\ next.type = "insertion" /\ next.ttsWord \in ContractionParts

\* a record with an original and a TTS token followed by the insertion of a
\* contraction part
pairThenPart(current, next) ==
    /\ current.type = "match"
    /\ next.type = "insertion" /\ next.ttsWord \in ContractionParts

\* r is a contraction-type match with the original token of current and the
\* end time of next
keepsOriginalTakesEnd(current, next, r) ==
    /\ r.type = "contraction" /\ r.isMatch
    /\ r.originalWord = current.originalWord
    /\ r.timestamp.end_time = next.timestamp.end_time

\* r is a contraction-type match with the original token of current, the two
\* TTS tokens joined, the start time of current (of next when current has no
\* timestamp) and the end time of next (of current when next has none)
joinsPairAndPart(current, next, r) ==
    /\ r.type = "contraction" /\ r.isMatch
    /\ r.originalWord = current.originalWord
    /\ r.ttsWord = current.ttsWord \o next.ttsWord
    /\ r.timestamp.word = r.ttsWord
    /\ r.timestamp.start_time = IF current.timestamp # NoTimestamp
                                THEN current.timestamp.start_time
                                ELSE next.timestamp.start_time
    /\ r.timestamp.end_time = IF next.timestamp # NoTimestamp
                              THEN next.timestamp.end_time
                              ELSE current.timestamp.end_time

\* C30 as stated: postProcessAlignment replaces a deletion immediately
\* followed by the insertion of a contraction part by one contraction-type
\* match that keeps the original token and takes the part's end time; every
\* other record passes through unchanged and in order.
C30_DeletionThenPartMerged ==
    al.pc = "processed" =>
        Replaces(al.alignment, al.processed, deletionThenPart, keepsOriginalTakesEnd)

\* C30 amended: postProcessAlignment replaces a record that carries an
\* original and a TTS token (a match-type record, its tokens equal or not)
\* immediately followed by the insertion of a contraction part by one
\* contraction-type match that keeps the original token, joins the two TTS
\* tokens and takes the part's end time (the first record's when the part
\* has no timestamp); every other record, a deletion followed by such an
\* insertion included, passes through unchanged and in order.
C30_PairThenPartMerged ==
    al.pc = "processed" =>
        Replaces(al.alignment, al.processed, pairThenPart, joinsPairAndPart)

\* a pair of unequal tokens followed by the insertion of "t" became one
\* contraction that ends where the "t" ends
C30_Witness ==
    /\ al.pc = "processed"
    /\ Len(al.alignment) = 2 /\ Len(al.processed) = 1
    /\ al.alignment[1].type = "match" /\ ~al.alignment[1].isMatch
    /\ al.alignment[2].timestamp # NoTimestamp
    /\ al.processed[1].type = "contraction"
    /\ al.processed[1].timestamp.end_time = al.alignment[2].timestamp.end_time
    /\ al.processed[1].timestamp.end_time # al.alignment[1].timestamp.end_time

\* ---- performSequenceAlignment ----

\* text.toLowerCase()
textToLowerCase(text) == [k \in 1..Len(text) |-> toLowerCase(text[k])]

\* .replace(/(\w)'(\w)/g, '$1$2'): the matches are taken from left to right
\* and do not overlap
RECURSIVE removeApostrophes(_)
removeApostrophes(text) ==
    IF Len(text) < 3 THEN text
    ELSE IF text[1] \in WordChars /\ text[2] = "'" /\ text[3] \in WordChars
    THEN <<text[1], text[3]>> \o removeApostrophes(SubSeq(text, 4, Len(text)))
    ELSE <<text[1]>> \o removeApostrophes(Tail(text))

\* preprocessText: the texts hold no digit, typographic quote, ellipsis or
\* dash, so the other replacements leave them as they are
preprocessText(text) ==
    IF text = <<>> THEN <<>> ELSE trim(removeApostrophes(textToLowerCase(text)))

\* the characters of [.,!?;:"'()\[\]{}] that the texts hold
Separators == {",", "'"}

\* text.split(/(\s+|[.,!?;:"'()\[\]{}])/g).filter(token => token.trim().length > 0),
\* token being the piece that the characters read so far have started
RECURSIVE tokensFrom(_, _)
tokensFrom(text, token) ==
    IF text = <<>> THEN (IF token = <<>> THEN <<>> ELSE <<token>>)
    ELSE IF Head(text) = " "
    THEN (IF token = <<>> THEN <<>> ELSE <<token>>) \o tokensFrom(Tail(text), <<>>)
    ELSE IF Head(text) \in Separators
    THEN (IF token = <<>> THEN <<>> ELSE <<token>>)
             \o << <<Head(text)>> >> \o tokensFrom(Tail(text), <<>>)
    ELSE tokensFrom(Tail(text), Append(token, Head(text)))

tokenizeText(text) == tokensFrom(text, <<>>)

\* ttsWords.join(' ')
RECURSIVE join(_)
join(ttsWords) ==
    IF ttsWords = <<>> THEN <<>>
    ELSE IF Len(ttsWords) = 1 THEN ttsWords[1]
    ELSE ttsWords[1] \o <<" ">> \o join(Tail(ttsWords))

\* ttsTimestamps.map(ts => ts.word)
wordsOf(ttsTimestamps) == [k \in 1..Len(ttsTimestamps) |-> ttsTimestamps[k].word]

\* the try block on the token sequences: an exception of the contraction
\* merge is caught and an empty list returned
alignOrEmpty(A, B, T) ==
    IF throwsTypeError(traceBack(A, B, T, Len(A), Len(B))) THEN <<>>
    ELSE alignSequences(A, B, T)

performSequenceAlignment(originalText, ttsTimestamps) ==
    IF originalText = <<>> \/ ttsTimestamps = <<>> THEN <<>>
    ELSE alignOrEmpty(tokenizeText(preprocessText(originalText)),
                      tokenizeText(preprocessText(join(wordsOf(ttsTimestamps)))),
                      ttsTimestamps)

\* words of a text and of a TimestampSequence: plain, capitalised with an
\* inner apostrophe, and with punctuation attached
SpokenWords == {<<"d">>, <<"t">>, <<"d", ",">>, <<"t", "'">>, <<"D", "'", "t">>}
\* words in an original text and entries in a TimestampSequence
MaxSpoken == 2

\* performSequenceAlignment called with every text of at most MaxSpoken
\* words and every TimestampSequence of at most MaxSpoken entries, entry j
\* spoken from j - 1 to j.
InitPerform ==
    /\ HookStart(Env(0, 0, 0, 0, 0, 0, TRUE))
    /\ \E ws \in SeqsUpTo(SpokenWords, MaxSpoken), spoken \in SeqsUpTo(SpokenWords, MaxSpoken) :
           al = [pc |-> "call", text |-> join(ws), stamps |-> TimestampsFor(spoken)]

PerformSequenceAlignment ==
    /\ al.pc = "call"
    /\ al' = [pc |-> "returned", text |-> al.text, stamps |-> al.stamps,
              original |-> tokenizeText(preprocessText(al.text)),
              tts |-> tokenizeText(preprocessText(join(wordsOf(al.stamps)))),
              result |-> performSequenceAlignment(al.text, al.stamps)]
    /\ lastOp' = Op("performSequenceAlignment", 0, "")
    /\ UNCHANGED hookVars

NextPerform == PerformSequenceAlignment

SpecPerform == InitPerform /\ [][NextPerform]_vars

\* the number of TTS tokens in the first k records of an alignment
RECURSIVE ttsTokensIn(_, _)
ttsTokensIn(alignment, k) ==
    IF k = 0 THEN 0
    ELSE ttsTokensIn(alignment, k - 1)
             + (IF alignment[k].type = "contraction" THEN 2
                ELSE IF alignment[k].ttsWord # null THEN 1 ELSE 0)

\* the number of tokens that the first w words of a TimestampSequence make
RECURSIVE tokensOfWords(_, _)
tokensOfWords(stamps, w) ==
    IF w = 0 THEN 0
    ELSE tokensOfWords(stamps, w - 1)
             + Len(tokenizeText(preprocessText(stamps[w].word)))

\* the entry of the word that TTS token j was made from
StampOfToken(stamps, j) ==
    stamps[CHOOSE w \in 1..Len(stamps) :
               tokensOfWords(stamps, w - 1) < j /\ j <= tokensOfWords(stamps, w)]

\* C36: every record of the returned alignment that carries a TTS token has
\* the timestamp of the TTS word that token was made from (a contraction
\* record the start of its first token's word and the end of its second
\* token's word), also when a TTS word makes several tokens.
C36_TimestampOfTokensWord ==
    al.pc = "returned" =>
        \A k \in 1..Len(al.result) :
            /\ al.result[k].type \in {"match", "insertion"} =>
                   al.result[k].timestamp
                       = StampOfToken(al.stamps, ttsTokensIn(al.result, k))
            /\ al.result[k].type = "contraction" =>
                   /\ al.result[k].timestamp.start_time
                          = StampOfToken(al.stamps, ttsTokensIn(al.result, k) - 1).start_time
                   /\ al.result[k].timestamp.end_time
                          = StampOfToken(al.stamps, ttsTokensIn(al.result, k)).end_time

\* C39: for every non-empty original text and non-empty TimestampSequence
\* performSequenceAlignment returns an alignment that holds every original
\* token, in order; no exception makes it return an empty list.
C39_EveryOriginalTokenAligned ==
    (al.pc = "returned" /\ al.text # <<>> /\ al.stamps # <<>>)
        => OriginalsOf(al.result) = al.original

\* ---- the highlight of the current word ----

noRange == [word |-> <<>>, start |-> -1, end |-> -1, timestamp |-> NoTimestamp,
            isMatch |-> FALSE, alignIndex |-> -1]

Abs(x) == IF x < 0 THEN -x ELSE x

\* the first range whose alignIndex is currentWordIndex, noRange without one
directMatch(highlightedRanges, wordIndex) ==
    IF \E i \in 1..Len(highlightedRanges) :
           highlightedRanges[i].alignIndex = wordIndex
    THEN highlightedRanges[CHOOSE i \in 1..Len(highlightedRanges) :
             /\ highlightedRanges[i].alignIndex = wordIndex
             /\ \A h \in 1..(i - 1) : highlightedRanges[h].alignIndex # wordIndex]
    ELSE noRange

\* the first of the ranges whose start time is closest to targetTime
closestByTime(highlightedRanges, targetTime) ==
    highlightedRanges[CHOOSE i \in 1..Len(highlightedRanges) :
        /\ \A h \in 1..Len(highlightedRanges) :
               Abs(highlightedRanges[i].timestamp.start_time - targetTime)
                   <= Abs(highlightedRanges[h].timestamp.start_time - targetTime)
        /\ \A h \in 1..(i - 1) :
               Abs(highlightedRanges[h].timestamp.start_time - targetTime)
                   > Abs(highlightedRanges[i].timestamp.start_time - targetTime)]

\* Math.min(Math.floor(currentWordIndex / timestamps.length * ranges), ranges - 1)
byProportion(highlightedRanges, wordIndex, length) ==
    highlightedRanges[Min((wordIndex * Len(highlightedRanges)) \div length,
                          Len(highlightedRanges) - 1) + 1]

\* the effect that updates the current highlight: the range it sets and the
\* way it found it
currentHighlightEffect(highlightedRanges, wordIndex, stamps) ==
    IF ~(wordIndex >= 0 /\ Len(highlightedRanges) > 0)
    THEN [by |-> "none", range |-> noRange]
    ELSE IF directMatch(highlightedRanges, wordIndex) # noRange
    THEN [by |-> "alignIndex", range |-> directMatch(highlightedRanges, wordIndex)]
    ELSE IF wordIndex < Len(stamps)
    THEN [by |-> "time",
          range |-> closestByTime(highlightedRanges,
                                  stamps[wordIndex + 1].start_time)]
    ELSE [by |-> "proportion",
          range |-> byProportion(highlightedRanges, wordIndex, Len(stamps))]

\* HighlightedTextInput rendered with every text of at most MaxSpoken words,
\* every TimestampSequence of at most MaxSpoken entries and every
\* currentWordIndex below MaxSpoken.
InitHighlight ==
    /\ HookStart(Env(0, 0, 0, 0, 0, 0, TRUE))
    /\ \E ws \in SeqsUpTo(SpokenWords, MaxSpoken), spoken \in SeqsUpTo(SpokenWords, MaxSpoken),
          k \in -1..(MaxSpoken - 1) :
           al = [pc |-> "props", text |-> join(ws), stamps |-> TimestampsFor(spoken),
                 currentWordIndex |-> k]

\* the effect that aligns the text when the text or the timestamps change
AlignmentEffect ==
    /\ al.pc = "props"
    /\ al' = [pc |-> "ranges", text |-> al.text, stamps |-> al.stamps,
              currentWordIndex |-> al.currentWordIndex,
              aligned |-> performSequenceAlignment(al.text, al.stamps),
              highlightedRanges |->
                  IF al.text # <<>> /\ al.stamps # <<>>
                  THEN mapAlignedPositionsInText(
                           al.text, performSequenceAlignment(al.text, al.stamps))
                  ELSE <<>>]
    /\ lastOp' = Op("alignmentEffect", 0, "")
    /\ UNCHANGED hookVars

HighlightEffect ==
    /\ al.pc = "ranges"
    /\ al' = [pc |-> "highlighted", text |-> al.text, stamps |-> al.stamps,
              currentWordIndex |-> al.currentWordIndex,
              aligned |-> al.aligned, highlightedRanges |-> al.highlightedRanges,
              currentHighlight |->
                  currentHighlightEffect(al.highlightedRanges, al.currentWordIndex,
                                         al.stamps)]
    /\ lastOp' = Op("highlightEffect", 0, currentHighlightEffect(
                        al.highlightedRanges, al.currentWordIndex, al.stamps).by)
    /\ UNCHANGED hookVars

NextHighlight == AlignmentEffect \/ HighlightEffect

SpecHighlight == InitHighlight /\ [][NextHighlight]_vars

\* C38: for every CurrentWordIndex k >= 0 that is an index of the
\* TimestampSequence, the range selected by direct alignIndex match carries
\* the timestamp of TimestampSequence[k] (a contraction range one that
\* spans it).
C38_AlignIndexIsWordIndex ==
    (/\ al.pc = "highlighted"
     /\ al.currentHighlight.by = "alignIndex"
     /\ al.currentWordIndex < Len(al.stamps))
    => /\ al.currentHighlight.range.timestamp.start_time
              <= al.stamps[al.currentWordIndex + 1].start_time
       /\ al.stamps[al.currentWordIndex + 1].end_time
              <= al.currentHighlight.range.timestamp.end_time

====
